---- MODULE Spec2Model ----
(***************************************************************************)
(* fastnvmetrics sampling engine (src/src/engine.cpp): lifecycle of the    *)
(* Engine (start / stop / destructor), the three tier threads, the warmup  *)
(* barrier (mutex + condition variable), the sync-point log and the trace  *)
(* writer, as a state machine whose steps are the atomic operations of the *)
(* C++ code (atomic loads/stores, mutex operations, vector operations).    *)
(***************************************************************************)
EXTENDS Integers, Sequences, FiniteSets, TLC

\* ---- bounds of the model ------------------------------------------------
MaxRuns     == 2    \* successful start() calls in one behaviour
MaxSteady   == 1    \* clock ticks explored beyond the primer phase
ShortBudget == 1    \* clock ticks explored when sync() callers are present
MaxMedium   == 1    \* medium samples of a run
MaxSlow     == 1    \* slow samples of a run
MaxSync     == 2    \* entries the sync-point log may hold
MaxCoresTried == 18 \* largest num_cpu_cores handed to the constructor
MaxRailsTried == 10 \* longest power_rails list handed to the constructor
MaxZonesTried == 18 \* longest thermal_zones list handed to the constructor
MaxHzTried    == 2  \* largest frequency handed to the constructor
MaxLabelLen   == 25 \* longest rail label and zone name of a board
MaxTicks      == 2  \* loop iterations followed with their reads
MaxJiffy      == 2  \* largest user and idle counter of a /proc/stat line
MaxPace       == 2  \* loop iterations followed with their deadlines

\* ---- program constants --------------------------------------------------
WarmupSamples == 10 \* primer iterations of run_fast
NumRails      == 1  \* board_.power_rails.size() of the modelled board
FdOpen        == 3  \* a descriptor returned by a successful open()
FdNone        == -1 \* "no descriptor"
MAX_CPU_CORES     == 16
MAX_POWER_RAILS   == 8
MAX_THERMAL_ZONES == 16
NameBytes         == 24 \* one power_rail_names / thermal_zone_names entry
INT_MAX           == 2147483647 \* largest int
MAGIC             == 1314278740 \* 0x4E564D54, "NVMT"
VERSION           == 1
BoardNameBytes    == 32 \* FileHeader::board_name
NsPerSec          == 1000000000 \* nanoseconds in a second

\* ---- threads ------------------------------------------------------------
Ctl      == "ctl"                       \* the thread that owns the Engine
Tiers    == {"fast", "medium", "slow"}  \* fast_thread_, medium_thread_, slow_thread_
Gated    == {"medium", "slow"}          \* tiers that start with wait_for_warmup()
Syncers  == {"s1", "s2"}                \* client threads calling sync()
Waiters  == {"w1"}                      \* client thread calling wait_for_warmup()
Clients  == Syncers \cup Waiters
Threads  == {Ctl} \cup Tiers \cup Clients
NoOwner  == "free"

VARIABLES
    pc,             \* position of every thread in the code
    callers,        \* the client threads that exist in this execution
    budget,         \* the clock value up to which the execution is explored
    run_limit,      \* the number of start() calls the owner makes at most
    emc_actmon_path, \* board_.emc_actmon_path ("" when the board has none)
    board,          \* board_: name, num_cpu_cores, rail labels, zone names
    config,         \* config_: fast_hz, medium_hz, slow_hz
    ctor,           \* outcome of the constructor
    running,        \* running_
    warmed_up,      \* warmed_up_
    fast_count,     \* fast_count_
    fast_samples,   \* fast_samples_
    medium_samples, \* medium_samples_
    slow_samples,   \* slow_samples_
    sync_points,    \* sync_points_
    sync_mtx,       \* owner of sync_mtx_
    warmup_mtx,     \* owner of warmup_mtx_
    warmup_cv,      \* threads blocked inside warmup_cv_.wait
    joinable,       \* std::thread::joinable() of the three thread objects
    t0_s,           \* t0_s_
    now,            \* CLOCK_MONOTONIC
    fast_i,         \* loop variable i of the primer loop of run_fast
    sync_id,        \* local `id` of each sync() call in flight
    sync_idx,       \* fast_count_ value loaded by each sync() call in flight
    runs,           \* number of successful start() calls so far
    in_dtor,        \* stop() is being executed by ~Engine
    fd_gpu_load,    \* fd_gpu_load_
    fd_proc_stat,   \* fd_proc_stat_
    fd_meminfo,     \* fd_meminfo_
    fd_emc,         \* fd_emc_
    fd_voltage,     \* fd_voltage_
    fd_current,     \* fd_current_
    fd_thermal,     \* fd_thermal_
    prev_cpu,       \* prev_cpu_
    sysfs,          \* the pseudo-files as the latest loop iteration found them
    iter,           \* iterations of its steady loop each tier has completed
    next,           \* local `next` of each tier thread (a timespec)
    entry,          \* the value `next` had when the steady loop was entered
    file            \* the output file at output_path_

scen    == <<callers, budget, run_limit, emc_actmon_path, board, config,
             ctor>>
flags   == <<running, warmed_up, fast_count>>
buffers == <<fast_samples, medium_samples, slow_samples>>
sync    == <<sync_points, sync_mtx, sync_id, sync_idx>>
barrier == <<warmup_mtx, warmup_cv>>
fds     == <<fd_gpu_load, fd_proc_stat, fd_meminfo, fd_emc, fd_voltage,
             fd_current, fd_thermal>>
loops   == <<prev_cpu, sysfs, iter, next, entry>>
owner   == <<runs, in_dtor>>
clock   == <<now, fast_i>>
vars    == <<pc, scen, flags, t0_s, joinable, buffers, sync, barrier, fds,
             loops, owner, clock, file>>

\* ---- data ---------------------------------------------------------------
\* struct timespec
timespec(sec, nsec) == [tv_sec |-> sec, tv_nsec |-> nsec]

\* CpuJiffies {total, idle}
CpuJiffies(total, idle) == [total |-> total, idle |-> idle]

\* What one lseek + read of a pseudo-file yields: nothing (a call failed or
\* no byte was read), or a text.  The text of a file that holds one integer
\* is either the digits of an int v or digits beyond the range of int.
Unreadable == [kind |-> "fail", v |-> 0]
IntFile(v) == [kind |-> "int", v |-> v]
HugeFile   == [kind |-> "overflow", v |-> 0]

\* /proc/stat: the lines "cpuN ..." that follow the line "cpu  ...", each
\* line given by its ten fields
StatFile(lines) == [kind |-> "text", lines |-> lines]
NoStat          == [kind |-> "fail", lines |-> <<>>]

\* /proc/meminfo: the numbers of its lines MemTotal and MemAvailable
MemFile(total, available) ==
    [kind |-> "text", total |-> total, available |-> available]
NoMem == [kind |-> "fail", total |-> 0, available |-> 0]

\* no pseudo-file has been read
NothingRead ==
    [gpu |-> Unreadable, stat |-> NoStat, mem |-> NoMem, emc |-> Unreadable,
     voltage |-> <<>>, current |-> <<>>, thermal |-> <<>>]

\* A sample of any tier; only time_s is modelled (monotonic_s() - t0_s_).
Sample(t) == [time_s |-> t]

\* SyncPoint {sync_id, fast_sample_idx}
SyncPoint(id, idx) == [sync_id |-> id, fast_sample_idx |-> idx]

\* A string is the sequence of its characters (character codes).
\* a copy that fills the whole array, leaving no room for the final NUL
Strncpy_NoNul(src, n) ==
    SubSeq(src, 1, IF Len(src) < n + 1 THEN Len(src) ELSE n + 1)

\* strncpy(dst, src, n) into a zeroed array of more than n bytes: the C
\* string left in dst is the first n characters of src, or all of src.
Strncpy(src, n) == SubSeq(src, 1, IF Len(src) < n THEN Len(src) ELSE n)

\* static_cast<uint8_t>
ToU8(n) == n % 256

\* the name slots of the header: slot i holds the name of entry i of the
\* list, cut to NameBytes - 1 characters; the slots beyond the list stay
\* zeroed
NameSlots(names, slots) ==
    [i \in 1..slots |->
       IF i <= Len(names) THEN Strncpy(names[i], NameBytes - 1) ELSE <<>>]

\* FileHeader as built by write_file (lines 444-467) from board_, config_,
\* the sizes f, m, s, k of the four vectors and emc = (fd_emc_ >= 0)
Header(f, m, s, k, emc) ==
    [magic |-> MAGIC, version |-> VERSION,
     board_name |-> Strncpy(board.board_name, BoardNameBytes - 1),
     num_cpu_cores |-> ToU8(board.num_cpu_cores),
     num_power_rails |-> ToU8(Len(board.power_rails)),
     num_thermal_zones |-> ToU8(Len(board.thermal_zones)),
     emc_available |-> emc,
     fast_hz |-> config.fast_hz, medium_hz |-> config.medium_hz,
     slow_hz |-> config.slow_hz,
     num_fast_samples |-> f, num_medium_samples |-> m,
     num_slow_samples |-> s, num_sync_points |-> k,
     power_rail_names |-> NameSlots(board.power_rails, MAX_POWER_RAILS),
     thermal_zone_names |-> NameSlots(board.thermal_zones, MAX_THERMAL_ZONES)]

\* FileHeader hdr{}: every field zero
ZeroHeader ==
    [magic |-> 0, version |-> 0, board_name |-> <<>>, num_cpu_cores |-> 0,
     num_power_rails |-> 0, num_thermal_zones |-> 0, emc_available |-> 0,
     fast_hz |-> 0, medium_hz |-> 0, slow_hz |-> 0,
     num_fast_samples |-> 0, num_medium_samples |-> 0,
     num_slow_samples |-> 0, num_sync_points |-> 0,
     power_rail_names |-> [i \in 1..MAX_POWER_RAILS |-> <<>>],
     thermal_zone_names |-> [i \in 1..MAX_THERMAL_ZONES |-> <<>>]]

\* The output file: absent, or the blocks written since fopen truncated it.
\* layout is the order in which the blocks were written.
NoFile ==
    [exists |-> FALSE, layout |-> <<>>, hdr |-> ZeroHeader,
     fast |-> <<>>, medium |-> <<>>, slow |-> <<>>, sync |-> <<>>]

\* sizeof of the packed structs (#pragma pack(push, 1))
HeaderBytes ==
    4 + 4 + 32 + 4 * 1 + 3 * 4 + 4 * 8
      + MAX_POWER_RAILS * NameBytes + MAX_THERMAL_ZONES * NameBytes + 64
FastSampleBytes   == 8 + 2 + 4 * MAX_CPU_CORES + 4 + 8 + 8 + 4
MediumSampleBytes == 8 + 3 * 4 * MAX_POWER_RAILS
SlowSampleBytes   == 8 + 4 * MAX_THERMAL_ZONES
SyncPointBytes    == 8 + 8

\* bytes fwrite has put in the file: sizeof(block) * count per block written
HasBlock(f, b) == \E i \in 1..Len(f.layout) : f.layout[i] = b
FileBytes(f) ==
    (IF HasBlock(f, "header") THEN HeaderBytes ELSE 0)
      + FastSampleBytes * Len(f.fast) + MediumSampleBytes * Len(f.medium)
      + SlowSampleBytes * Len(f.slow) + SyncPointBytes * Len(f.sync)

\* ---- initial state: a constructed Engine, not started -------------------
\* The executions explored: one client waiting on the barrier while the
\* clock runs through the primer phase and MaxSteady ticks more (board with
\* an EMC path), or two clients calling sync() while the clock runs for
\* ShortBudget ticks (board without an EMC path).
FullBudget == WarmupSamples + MaxSteady
EmcPath    == "/sys/kernel/debug/cactmon/mc_all"
WaitScenario ==
    [callers |-> {"w1"}, budget |-> FullBudget, runs |-> MaxRuns,
     emc |-> EmcPath]
SyncScenario ==
    [callers |-> {"s1", "s2"}, budget |-> ShortBudget, runs |-> MaxRuns,
     emc |-> ""]
Scenarios == {WaitScenario, SyncScenario}

\* the string of n characters c
Str(c, n) == [k \in 1..n |-> c]

\* BoardConfig: board_name, num_cpu_cores, the labels of power_rails and
\* the names of thermal_zones
BoardConfig(name, cores, labels, names) ==
    [board_name |-> name, num_cpu_cores |-> cores, power_rails |-> labels,
     thermal_zones |-> names]

\* a board with the given numbers of cores, rails and zones and one-letter
\* names
Board(cores, rails, zones) ==
    BoardConfig(Str(1, 1), cores, [i \in 1..rails |-> Str(1 + i, 1)],
                [i \in 1..zones |-> Str(1 + i, 1)])

\* the board of the executions explored: within the limits of the constructor
ModelBoard == Board(1, NumRails, 1)

\* EngineConfig, and its default member initialisers
Config(f, m, s) == [fast_hz |-> f, medium_hz |-> m, slow_hz |-> s]
DefaultConfig == Config(1000, 100, 10)

\* the data members before the body of the constructor runs
Members(scs) ==
    /\ pc = [t \in Threads |-> IF t \in Tiers THEN "none" ELSE "idle"]
    /\ \E sc \in scs : /\ callers = sc.callers
                       /\ budget = sc.budget
                       /\ run_limit = sc.runs
                       /\ emc_actmon_path = sc.emc
    /\ running = FALSE
    /\ warmed_up = FALSE
    /\ fast_count = 0
    /\ fast_samples = <<>>
    /\ medium_samples = <<>>
    /\ slow_samples = <<>>
    /\ sync_points = <<>>
    /\ sync_mtx = NoOwner
    /\ warmup_mtx = NoOwner
    /\ warmup_cv = {}
    /\ joinable = [t \in Tiers |-> FALSE]
    /\ t0_s = 0
    /\ now = 0
    /\ fast_i = 0
    /\ sync_id = [s \in Syncers |-> 0]
    /\ sync_idx = [s \in Syncers |-> 0]
    /\ runs = 0
    /\ in_dtor = FALSE
    /\ fd_gpu_load = FdNone
    /\ fd_proc_stat = FdNone
    /\ fd_meminfo = FdNone
    /\ fd_emc = FdNone
    /\ fd_voltage = <<>>
    /\ fd_current = <<>>
    /\ fd_thermal = <<>>
    /\ prev_cpu = <<>>
    /\ sysfs = NothingRead
    /\ iter = [t \in Tiers |-> 0]
    /\ next = [t \in Tiers |-> timespec(0, 0)]
    /\ entry = [t \in Tiers |-> timespec(0, 0)]
    /\ file = NoFile

InitIn(scs) ==
    /\ Members(scs)
    /\ board = ModelBoard
    /\ config = DefaultConfig
    /\ ctor = "ok"

Init == InitIn(Scenarios)

Goto(t, l) == pc' = [pc EXCEPT ![t] = l]

\* ---- Engine::start ------------------------------------------------------
\* start() without the running_ check of lines 84-85.
StartCheck_Unchecked ==
    /\ pc[Ctl] = "idle"
    /\ runs < run_limit
    /\ runs' = runs + 1
    /\ Goto(Ctl, "start_running")
    /\ UNCHANGED <<scen, loops, flags, t0_s, joinable, buffers, sync, barrier, fds,
                   in_dtor, clock, file>>

\* lines 84-85: the running_ check; throws when the engine is running.
StartCheck ==
    /\ pc[Ctl] = "idle"
    /\ IF running
         THEN /\ Goto(Ctl, "start_throw")
              /\ UNCHANGED runs
         ELSE /\ runs < run_limit
              /\ runs' = runs + 1
              /\ Goto(Ctl, "start_running")
    /\ UNCHANGED <<scen, loops, flags, t0_s, joinable, buffers, sync, barrier, fds,
                   in_dtor, clock, file>>

\* line 85: std::runtime_error("Engine already running") reaches the caller.
StartThrow ==
    /\ pc[Ctl] = "start_throw"
    /\ Goto(Ctl, "idle")
    /\ UNCHANGED <<scen, loops, flags, t0_s, joinable, buffers, sync, barrier, fds,
                   owner, clock, file>>

\* line 87
StartSetRunning ==
    /\ pc[Ctl] = "start_running"
    /\ running' = TRUE
    /\ Goto(Ctl, "start_warmed")
    /\ UNCHANGED <<scen, loops, warmed_up, fast_count, t0_s, joinable, buffers, sync,
                   barrier, fds, owner, clock, file>>

\* a start() that leaves warmed_up_ as the previous run left it
StartResetWarmedUp_Stale ==
    /\ pc[Ctl] = "start_warmed"
    /\ Goto(Ctl, "start_count")
    /\ UNCHANGED <<scen, loops, flags, t0_s, joinable, buffers, sync, barrier, fds,
                   owner, clock, file>>

\* line 88
StartResetWarmedUp ==
    /\ pc[Ctl] = "start_warmed"
    /\ warmed_up' = FALSE
    /\ Goto(Ctl, "start_count")
    /\ UNCHANGED <<scen, loops, running, fast_count, t0_s, joinable, buffers, sync,
                   barrier, fds, owner, clock, file>>

\* line 89
StartResetCount ==
    /\ pc[Ctl] = "start_count"
    /\ fast_count' = 0
    /\ Goto(Ctl, "start_clear")
    /\ UNCHANGED <<scen, loops, running, warmed_up, t0_s, joinable, buffers, sync,
                   barrier, fds, owner, clock, file>>

\* lines 91-93
StartClearBuffers ==
    /\ pc[Ctl] = "start_clear"
    /\ fast_samples' = <<>>
    /\ medium_samples' = <<>>
    /\ slow_samples' = <<>>
    /\ Goto(Ctl, "start_clear_sync")
    /\ UNCHANGED <<scen, loops, flags, t0_s, joinable, sync, barrier, fds, owner,
                   clock, file>>

\* line 94: sync_points_.clear(), made without taking sync_mtx_.
StartClearSync ==
    /\ pc[Ctl] = "start_clear_sync"
    /\ sync_points' = <<>>
    /\ Goto(Ctl, "start_open")
    /\ UNCHANGED <<scen, loops, flags, t0_s, joinable, buffers, sync_mtx, sync_id,
                   sync_idx, barrier, fds, owner, clock, file>>

\* open_fds (lines 400-418) pushes one entry on fd_voltage_ per rail.
RECURSIVE PushN(_, _, _)
PushN(v, n, x) == IF n = 0 THEN v ELSE PushN(Append(v, x), n - 1, x)

\* lines 401-404: an empty path is not opened.
try_open(path) == IF path = "" THEN FdNone ELSE FdOpen

\* lines 96-99: open_fds(), prev_cpu_.assign, t0_s_ = monotonic_s().
StartOpenFds ==
    /\ pc[Ctl] = "start_open"
    /\ fd_gpu_load' = FdOpen
    /\ fd_proc_stat' = FdOpen
    /\ fd_meminfo' = FdOpen
    /\ fd_emc' = try_open(emc_actmon_path)
    /\ fd_voltage' = PushN(fd_voltage, Len(board.power_rails), FdOpen)
    /\ fd_current' = PushN(fd_current, Len(board.power_rails), FdOpen)
    /\ fd_thermal' = PushN(fd_thermal, Len(board.thermal_zones), FdOpen)
    /\ prev_cpu' = [c \in 1..board.num_cpu_cores |-> CpuJiffies(0, 0)]
    /\ t0_s' = now
    /\ Goto(Ctl, "start_spawn_fast")
    /\ UNCHANGED <<scen, sysfs, iter, next, entry, flags, joinable, buffers, sync, barrier, owner, clock,
                   file>>

\* lines 101-103: one std::thread is created per step.
SpawnLabel(t) ==
    IF t = "fast" THEN "start_spawn_fast"
    ELSE IF t = "medium" THEN "start_spawn_medium" ELSE "start_spawn_slow"

AfterSpawn(t) ==
    IF t = "fast" THEN "start_spawn_medium"
    ELSE IF t = "medium" THEN "start_spawn_slow" ELSE "idle"

EntryLabel(t) == IF t = "fast" THEN "warm_loop" ELSE "wfw_lock"

StartSpawn(t) ==
    /\ pc[Ctl] = SpawnLabel(t)
    /\ joinable' = [joinable EXCEPT ![t] = TRUE]
    /\ pc' = [pc EXCEPT ![Ctl] = AfterSpawn(t), ![t] = EntryLabel(t)]
    /\ fast_i' = IF t = "fast" THEN 0 ELSE fast_i
    /\ UNCHANGED <<scen, loops, flags, t0_s, buffers, sync, barrier, fds, owner, now,
                   file>>

\* ---- Engine::stop -------------------------------------------------------
\* The owner calls stop() on a running engine (once per start).
StopCall ==
    /\ pc[Ctl] = "idle"
    /\ running
    /\ Goto(Ctl, "stop_clear")
    /\ UNCHANGED <<scen, loops, flags, t0_s, joinable, buffers, sync, barrier, fds,
                   owner, clock, file>>

\* stop() that joins without clearing running_ first.
StopClearRunning_Kept ==
    /\ pc[Ctl] = "stop_clear"
    /\ Goto(Ctl, "stop_join_fast")
    /\ UNCHANGED <<scen, loops, flags, t0_s, joinable, buffers, sync, barrier, fds,
                   owner, clock, file>>

\* line 107
StopClearRunning ==
    /\ pc[Ctl] = "stop_clear"
    /\ running' = FALSE
    /\ Goto(Ctl, "stop_join_fast")
    /\ UNCHANGED <<scen, loops, warmed_up, fast_count, t0_s, joinable, buffers, sync,
                   barrier, fds, owner, clock, file>>

JoinLabel(t) ==
    IF t = "fast" THEN "stop_join_fast"
    ELSE IF t = "medium" THEN "stop_join_medium" ELSE "stop_join_slow"

AfterJoin(t) ==
    IF t = "fast" THEN "stop_join_medium"
    ELSE IF t = "medium" THEN "stop_join_slow" ELSE "wf_open"

\* stop() that detaches its threads instead of waiting for them to end.
StopJoin_NoWait(t) ==
    /\ pc[Ctl] = JoinLabel(t)
    /\ joinable' = [joinable EXCEPT ![t] = FALSE]
    /\ Goto(Ctl, AfterJoin(t))
    /\ UNCHANGED <<scen, loops, flags, t0_s, buffers, sync, barrier, fds, owner,
                   clock, file>>

\* lines 109-111: if (joinable()) join(); join blocks until the thread ended.
StopJoin(t) ==
    /\ pc[Ctl] = JoinLabel(t)
    /\ IF joinable[t]
         THEN /\ pc[t] = "done"
              /\ joinable' = [joinable EXCEPT ![t] = FALSE]
              /\ pc' = [pc EXCEPT ![Ctl] = AfterJoin(t), ![t] = "none"]
         ELSE /\ Goto(Ctl, AfterJoin(t))
              /\ UNCHANGED joinable
    /\ UNCHANGED <<scen, loops, flags, t0_s, buffers, sync, barrier, fds, owner,
                   clock, file>>

\* ---- Engine::write_file -------------------------------------------------
\* write_file that returns without a word when fopen fails.
WriteOpen_Silent ==
    /\ pc[Ctl] = "wf_open"
    /\ \/ /\ file' = [NoFile EXCEPT !.exists = TRUE]
          /\ Goto(Ctl, "wf_header")
       \/ /\ Goto(Ctl, "close_fds")
          /\ UNCHANGED file
    /\ UNCHANGED <<scen, loops, flags, t0_s, joinable, buffers, sync, barrier, fds,
                   owner, clock>>

\* lines 440-441: fopen(path, "wb") truncates the file, or fails and throws.
WriteOpen ==
    /\ pc[Ctl] = "wf_open"
    /\ \/ /\ file' = [NoFile EXCEPT !.exists = TRUE]
          /\ Goto(Ctl, "wf_header")
       \/ /\ Goto(Ctl, "stop_throw")
          /\ UNCHANGED file
    /\ UNCHANGED <<scen, loops, flags, t0_s, joinable, buffers, sync, barrier, fds,
                   owner, clock>>

\* line 441: the exception leaves write_file and stop() (close_fds is not
\* reached); thrown out of the destructor, which is noexcept, it terminates
\* the process.
StopThrow ==
    /\ pc[Ctl] = "stop_throw"
    /\ Goto(Ctl, IF in_dtor THEN "terminated" ELSE "idle")
    /\ UNCHANGED <<scen, loops, flags, t0_s, joinable, buffers, sync, barrier, fds,
                   owner, clock, file>>

\* a writer that reports the EMC as available whatever fd_emc_ is
WriteHeader_EmcAlways ==
    /\ pc[Ctl] = "wf_header"
    /\ file' = [file EXCEPT !.hdr =
                  Header(Len(fast_samples), Len(medium_samples),
                         Len(slow_samples), Len(sync_points), 1),
                            !.layout = Append(@, "header")]
    /\ Goto(Ctl, "wf_samples")
    /\ UNCHANGED <<scen, loops, flags, t0_s, joinable, buffers, sync, barrier, fds,
                   owner, clock>>

\* lines 444-469: the header is built from the buffer sizes and written.
\* sync_points_.size() is read without taking sync_mtx_.
WriteHeader ==
    /\ pc[Ctl] = "wf_header"
    /\ file' = [file EXCEPT !.hdr =
                  Header(Len(fast_samples), Len(medium_samples),
                         Len(slow_samples), Len(sync_points),
                         IF fd_emc >= 0 THEN 1 ELSE 0),
                            !.layout = Append(@, "header")]
    /\ Goto(Ctl, "wf_samples")
    /\ UNCHANGED <<scen, loops, flags, t0_s, joinable, buffers, sync, barrier, fds,
                   owner, clock>>

\* lines 470-472
WriteSamples ==
    /\ pc[Ctl] = "wf_samples"
    /\ file' = [file EXCEPT !.fast = fast_samples, !.medium = medium_samples,
                            !.slow = slow_samples,
                            !.layout = @ \o <<"fast", "medium", "slow">>]
    /\ Goto(Ctl, "wf_sync")
    /\ UNCHANGED <<scen, loops, flags, t0_s, joinable, buffers, sync, barrier, fds,
                   owner, clock>>

\* lines 473-475: sync_points_ is read without taking sync_mtx_.
WriteSync ==
    /\ pc[Ctl] = "wf_sync"
    /\ file' = [file EXCEPT !.sync = sync_points,
                            !.layout = Append(@, "sync")]
    /\ Goto(Ctl, "close_fds")
    /\ UNCHANGED <<scen, loops, flags, t0_s, joinable, buffers, sync, barrier, fds,
                   owner, clock>>

\* stop() that resets fast_count_ before it returns
CloseFds_ResetCount ==
    /\ pc[Ctl] = "close_fds"
    /\ fd_gpu_load' = FdNone
    /\ fd_proc_stat' = FdNone
    /\ fd_meminfo' = FdNone
    /\ fd_emc' = FdNone
    /\ fd_voltage' = <<>>
    /\ fd_current' = <<>>
    /\ fd_thermal' = <<>>
    /\ fast_count' = 0
    /\ Goto(Ctl, IF in_dtor THEN "destroyed" ELSE "idle")
    /\ UNCHANGED <<scen, loops, running, warmed_up, t0_s, joinable, buffers,
                   sync, barrier, owner, clock, file>>

\* line 114, close_fds (lines 420-437); stop() returns.
CloseFds ==
    /\ pc[Ctl] = "close_fds"
    /\ fd_gpu_load' = FdNone
    /\ fd_proc_stat' = FdNone
    /\ fd_meminfo' = FdNone
    /\ fd_emc' = FdNone
    /\ fd_voltage' = <<>>
    /\ fd_current' = <<>>
    /\ fd_thermal' = <<>>
    /\ Goto(Ctl, IF in_dtor THEN "destroyed" ELSE "idle")
    /\ UNCHANGED <<scen, loops, flags, t0_s, joinable, buffers, sync, barrier, owner,
                   clock, file>>

\* ---- Engine::~Engine (lines 79-81) --------------------------------------
\* A destructor that never calls stop().
Destroy_NoStop ==
    /\ pc[Ctl] = "idle"
    /\ \A c \in Clients : pc[c] = "idle"
    /\ in_dtor' = running
    /\ Goto(Ctl, "destroyed")
    /\ UNCHANGED <<scen, loops, flags, t0_s, joinable, buffers, sync, barrier, fds,
                   runs, clock, file>>

\* The engine is destroyed when no client call is in flight.
Destroy ==
    /\ pc[Ctl] = "idle"
    /\ \A c \in Clients : pc[c] = "idle"
    /\ IF running
         THEN /\ in_dtor' = TRUE
              /\ Goto(Ctl, "stop_clear")
         ELSE /\ Goto(Ctl, "destroyed")
              /\ UNCHANGED in_dtor
    /\ UNCHANGED <<scen, loops, flags, t0_s, joinable, buffers, sync, barrier, fds,
                   runs, clock, file>>

EngineAlive == pc[Ctl] \notin {"destroyed", "terminated"} /\ ~in_dtor

\* ---- Engine::run_fast ---------------------------------------------------
\* run_fast that returns to its caller's loop without publishing warmed_up_
\* when the primer loop was cut short by stop().
WarmLoop_SilentOnStop ==
    /\ pc["fast"] = "warm_loop"
    /\ IF fast_i < WarmupSamples /\ running
         THEN /\ now < budget
              /\ fast_samples' = Append(fast_samples, Sample(now - t0_s))
              /\ Goto("fast", "warm_bump")
         ELSE /\ Goto("fast", IF running THEN "pub_lock" ELSE "fast_loop")
              /\ UNCHANGED fast_samples
    /\ UNCHANGED <<scen, loops, flags, t0_s, joinable, medium_samples, slow_samples,
                   sync, barrier, fds, owner, clock, file>>

\* run_fast whose primer loop runs one iteration short.
WarmLoop_OneShort ==
    /\ pc["fast"] = "warm_loop"
    /\ IF fast_i < WarmupSamples - 1 /\ running
         THEN /\ now < budget
              /\ fast_samples' = Append(fast_samples, Sample(now - t0_s))
              /\ Goto("fast", "warm_bump")
         ELSE /\ Goto("fast", "pub_lock")
              /\ UNCHANGED fast_samples
    /\ UNCHANGED <<scen, loops, flags, t0_s, joinable, medium_samples, slow_samples,
                   sync, barrier, fds, owner, clock, file>>

\* lines 323-330: the loop condition i < 10 && running_, then one sample is
\* taken and appended to the thread's own buffer.
WarmLoop ==
    /\ pc["fast"] = "warm_loop"
    /\ IF fast_i < WarmupSamples /\ running
         THEN /\ now < budget
              /\ fast_samples' = Append(fast_samples, Sample(now - t0_s))
              /\ Goto("fast", "warm_bump")
         ELSE /\ Goto("fast", "pub_lock")
              /\ UNCHANGED fast_samples
    /\ UNCHANGED <<scen, loops, flags, t0_s, joinable, medium_samples, slow_samples,
                   sync, barrier, fds, owner, clock, file>>

\* run_fast that counts a sample twice.
FastBump_Twice(from, to) ==
    /\ pc["fast"] = from
    /\ fast_count' = fast_count + 2
    /\ Goto("fast", to)
    /\ UNCHANGED <<scen, loops, running, warmed_up, t0_s, joinable, buffers, sync,
                   barrier, fds, owner, clock, file>>

\* run_fast that appends without counting.
FastBump_Skip(from, to) ==
    /\ pc["fast"] = from
    /\ Goto("fast", to)
    /\ UNCHANGED <<scen, loops, flags, t0_s, joinable, buffers, sync, barrier, fds,
                   owner, clock, file>>

\* lines 331, 355: fast_count_.fetch_add(1)
FastBump(from, to) ==
    /\ pc["fast"] = from
    /\ fast_count' = fast_count + 1
    /\ Goto("fast", to)
    /\ UNCHANGED <<scen, loops, running, warmed_up, t0_s, joinable, buffers, sync,
                   barrier, fds, owner, clock, file>>

WarmBump == FastBump("warm_bump", "warm_sleep")

\* a primer loop whose sleep takes no time
WarmSleep_NoTime ==
    /\ pc["fast"] = "warm_sleep"
    /\ fast_i' = fast_i + 1
    /\ Goto("fast", "warm_loop")
    /\ UNCHANGED <<scen, loops, flags, t0_s, joinable, buffers, sync, barrier, fds,
                   owner, now, file>>

\* lines 333-335: relative sleep of one interval, then ++i.  The clock has
\* advanced when clock_nanosleep returns.
WarmSleep ==
    /\ pc["fast"] = "warm_sleep"
    /\ now' = now + 1
    /\ fast_i' = fast_i + 1
    /\ Goto("fast", "warm_loop")
    /\ UNCHANGED <<scen, loops, flags, t0_s, joinable, buffers, sync, barrier, fds,
                   owner, file>>

\* line 338
PublishLock ==
    /\ pc["fast"] = "pub_lock"
    /\ warmup_mtx = NoOwner
    /\ warmup_mtx' = "fast"
    /\ Goto("fast", "pub_store")
    /\ UNCHANGED <<scen, loops, flags, t0_s, joinable, buffers, sync, warmup_cv, fds,
                   owner, clock, file>>

\* lines 339-340: store under the mutex, then the lock_guard releases it.
PublishStore ==
    /\ pc["fast"] = "pub_store"
    /\ warmed_up' = TRUE
    /\ warmup_mtx' = NoOwner
    /\ Goto("fast", "pub_notify")
    /\ UNCHANGED <<scen, loops, running, fast_count, t0_s, joinable, buffers, sync,
                   warmup_cv, fds, owner, clock, file>>

\* run_fast without the notify_all of line 341.
PublishNotify_Missing ==
    /\ pc["fast"] = "pub_notify"
    /\ Goto("fast", "fast_loop")
    /\ UNCHANGED <<scen, loops, flags, t0_s, joinable, buffers, sync, barrier, fds,
                   owner, clock, file>>

\* line 341: notify_all wakes every thread blocked in warmup_cv_.wait; each
\* must re-acquire the mutex.  Lines 344-345 capture `next`.
PublishNotify ==
    /\ pc["fast"] = "pub_notify"
    /\ pc' = [t \in Threads |->
                IF t = "fast" THEN "fast_loop"
                ELSE IF t \in warmup_cv THEN "wfw_lock" ELSE pc[t]]
    /\ warmup_cv' = {}
    /\ UNCHANGED <<scen, loops, flags, t0_s, joinable, buffers, sync, warmup_mtx, fds,
                   owner, clock, file>>

\* lines 347-354: while (running_) { sample; append; ...
FastLoop ==
    /\ pc["fast"] = "fast_loop"
    /\ IF running
         THEN /\ now < budget
              /\ fast_samples' = Append(fast_samples, Sample(now - t0_s))
              /\ Goto("fast", "fast_bump")
         ELSE /\ Goto("fast", "done")
              /\ UNCHANGED fast_samples
    /\ UNCHANGED <<scen, loops, flags, t0_s, joinable, medium_samples, slow_samples,
                   sync, barrier, fds, owner, clock, file>>

SteadyBump == FastBump("fast_bump", "fast_sleep")

\* lines 357-358: sleep until the absolute deadline `next`.
FastSleep ==
    /\ pc["fast"] = "fast_sleep"
    /\ now' = now + 1
    /\ Goto("fast", "fast_loop")
    /\ UNCHANGED <<scen, loops, flags, t0_s, joinable, buffers, sync, barrier, fds,
                   owner, fast_i, file>>

\* ---- Engine::wait_for_warmup (lines 117-122) ----------------------------
\* Called by run_medium, run_slow and by client threads.
AfterWait(t) == IF t \in Gated THEN "loop" ELSE "idle"

WaitCall(w) ==
    /\ w \in callers
    /\ pc[w] = "idle"
    /\ EngineAlive
    /\ Goto(w, "wfw_lock")
    /\ UNCHANGED <<scen, loops, flags, t0_s, joinable, buffers, sync, barrier, fds,
                   owner, clock, file>>

\* line 118, and the re-acquisition of the mutex inside wait() after a wake-up
WfwLock(t) ==
    /\ pc[t] = "wfw_lock"
    /\ warmup_mtx = NoOwner
    /\ warmup_mtx' = t
    /\ Goto(t, "wfw_check")
    /\ UNCHANGED <<scen, loops, flags, t0_s, joinable, buffers, sync, warmup_cv, fds,
                   owner, clock, file>>

\* a wait whose predicate does not look at warmed_up_
WarmupPredicate_Always == TRUE

\* lines 119-121: the predicate of the wait
WarmupPredicate == warmed_up

\* The predicate is evaluated holding the mutex; when it holds the call
\* returns (the unique_lock releases the mutex), otherwise the thread waits.
WfwCheck(t) ==
    /\ pc[t] = "wfw_check"
    /\ IF WarmupPredicate
         THEN /\ warmup_mtx' = NoOwner
              /\ Goto(t, AfterWait(t))
         ELSE /\ Goto(t, "wfw_wait")
              /\ UNCHANGED warmup_mtx
    /\ UNCHANGED <<scen, loops, flags, t0_s, joinable, buffers, sync, warmup_cv, fds,
                   owner, clock, file>>

\* condition_variable::wait: atomically release the mutex and block.
WfwWait(t) ==
    /\ pc[t] = "wfw_wait"
    /\ warmup_mtx' = NoOwner
    /\ warmup_cv' = warmup_cv \cup {t}
    /\ Goto(t, "wfw_blocked")
    /\ UNCHANGED <<scen, loops, flags, t0_s, joinable, buffers, sync, fds, owner,
                   clock, file>>

\* condition_variable::wait may wake up spuriously.
SpuriousWake(t) ==
    /\ pc[t] = "wfw_blocked"
    /\ t \in warmup_cv
    /\ warmup_cv' = warmup_cv \ {t}
    /\ Goto(t, "wfw_lock")
    /\ UNCHANGED <<scen, loops, flags, t0_s, joinable, buffers, sync, warmup_mtx, fds,
                   owner, clock, file>>

\* ---- Engine::run_medium / Engine::run_slow ------------------------------
BufLen(t) == IF t = "medium" THEN Len(medium_samples) ELSE Len(slow_samples)
BufMax(t) == IF t = "medium" THEN MaxMedium ELSE MaxSlow

\* a gated loop that takes its first sample before it tests running_
TierLoop_SampleFirst(t) ==
    /\ pc[t] = "loop"
    /\ IF running \/ BufLen(t) = 0
         THEN /\ BufLen(t) < BufMax(t)
              /\ IF t = "medium"
                   THEN /\ medium_samples' =
                              Append(medium_samples, Sample(now - t0_s))
                        /\ UNCHANGED slow_samples
                   ELSE /\ slow_samples' =
                              Append(slow_samples, Sample(now - t0_s))
                        /\ UNCHANGED medium_samples
              /\ UNCHANGED pc
         ELSE /\ Goto(t, "done")
              /\ UNCHANGED <<medium_samples, slow_samples>>
    /\ UNCHANGED <<scen, loops, flags, t0_s, joinable, fast_samples, sync,
                   barrier, fds, owner, clock, file>>

\* lines 369-376, 387-394: while (running_) { sample; append; sleep until the
\* next deadline }
TierLoop(t) ==
    /\ pc[t] = "loop"
    /\ IF running
         THEN /\ BufLen(t) < BufMax(t)
              /\ IF t = "medium"
                   THEN /\ medium_samples' =
                              Append(medium_samples, Sample(now - t0_s))
                        /\ UNCHANGED slow_samples
                   ELSE /\ slow_samples' =
                              Append(slow_samples, Sample(now - t0_s))
                        /\ UNCHANGED medium_samples
              /\ UNCHANGED pc
         ELSE /\ Goto(t, "done")
              /\ UNCHANGED <<medium_samples, slow_samples>>
    /\ UNCHANGED <<scen, loops, flags, t0_s, joinable, fast_samples, sync, barrier,
                   fds, owner, clock, file>>

\* ---- Engine::sync (lines 124-130) ---------------------------------------
\* line 125
SyncLock(s) ==
    /\ s \in callers
    /\ pc[s] = "idle"
    /\ EngineAlive
    /\ Len(sync_points) < MaxSync
    /\ sync_mtx = NoOwner
    /\ sync_mtx' = s
    /\ Goto(s, "sync_size")
    /\ UNCHANGED <<scen, loops, flags, t0_s, joinable, buffers, sync_points, sync_id,
                   sync_idx, barrier, fds, owner, clock, file>>

\* line 126
SyncSize(s) ==
    /\ pc[s] = "sync_size"
    /\ sync_id' = [sync_id EXCEPT ![s] = Len(sync_points) + 1]
    /\ Goto(s, "sync_load")
    /\ UNCHANGED <<scen, loops, flags, t0_s, joinable, buffers, sync_points, sync_mtx,
                   sync_idx, barrier, fds, owner, clock, file>>

\* line 128: fast_count_.load
SyncLoad(s) ==
    /\ pc[s] = "sync_load"
    /\ sync_idx' = [sync_idx EXCEPT ![s] = fast_count]
    /\ Goto(s, "sync_push")
    /\ UNCHANGED <<scen, loops, flags, t0_s, joinable, buffers, sync_points, sync_mtx,
                   sync_id, barrier, fds, owner, clock, file>>

\* line 127: push_back
SyncPush(s) ==
    /\ pc[s] = "sync_push"
    /\ sync_points' = Append(sync_points, SyncPoint(sync_id[s], sync_idx[s]))
    /\ sync_idx' = [sync_idx EXCEPT ![s] = 0]
    /\ Goto(s, "sync_return")
    /\ UNCHANGED <<scen, loops, flags, t0_s, joinable, buffers, sync_mtx, sync_id,
                   barrier, fds, owner, clock, file>>

\* line 129: return id (sync_id[s] at this point); the lock_guard releases
\* sync_mtx_ and the locals go out of scope.
SyncReturn(s) ==
    /\ pc[s] = "sync_return"
    /\ sync_id' = [sync_id EXCEPT ![s] = 0]
    /\ sync_mtx' = NoOwner
    /\ Goto(s, "idle")
    /\ UNCHANGED <<scen, loops, flags, t0_s, joinable, buffers, sync_points, sync_idx,
                   barrier, fds, owner, clock, file>>

\* ---- Engine::Engine (lines 61-77) ---------------------------------------
\* static_cast<int> of a size_t: a value up to INT_MAX is kept, the values
\* above it wrap around to the negative ints
ToInt(n) == IF n <= INT_MAX THEN n ELSE ((n - INT_MAX) - 1) - INT_MAX - 1

\* a constructor that creates the output file once the checks have passed
Construct_CreatingFile ==
    /\ ctor = "pending"
    /\ ctor' =
          IF board.num_cpu_cores <= 0 \/ board.num_cpu_cores > MAX_CPU_CORES
            THEN "invalid_argument"
          ELSE IF ToInt(Len(board.power_rails)) > MAX_POWER_RAILS
            THEN "invalid_argument"
          ELSE IF ToInt(Len(board.thermal_zones)) > MAX_THERMAL_ZONES
            THEN "invalid_argument"
          ELSE "ok"
    /\ file' = IF ctor' = "ok" THEN [NoFile EXCEPT !.exists = TRUE] ELSE file
    /\ UNCHANGED <<pc, callers, budget, run_limit, emc_actmon_path, board,
                   config, flags, t0_s, joinable, buffers, sync, barrier, fds,
                   loops, owner, clock>>

\* a constructor that takes MAX_CPU_CORES itself for too many
Construct_OffByOne ==
    /\ ctor = "pending"
    /\ ctor' =
          IF board.num_cpu_cores <= 0 \/ board.num_cpu_cores >= MAX_CPU_CORES
            THEN "invalid_argument"
          ELSE IF ToInt(Len(board.power_rails)) > MAX_POWER_RAILS
            THEN "invalid_argument"
          ELSE IF ToInt(Len(board.thermal_zones)) > MAX_THERMAL_ZONES
            THEN "invalid_argument"
          ELSE "ok"
    /\ UNCHANGED <<pc, callers, budget, run_limit, emc_actmon_path, board,
                   config, flags, t0_s, joinable, buffers, sync, barrier, fds,
                   loops, owner, clock, file>>

\* lines 66-76: the three checks of the constructor, in their order
Construct ==
    /\ ctor = "pending"
    /\ ctor' =
          IF board.num_cpu_cores <= 0 \/ board.num_cpu_cores > MAX_CPU_CORES
            THEN "invalid_argument"
          ELSE IF ToInt(Len(board.power_rails)) > MAX_POWER_RAILS
            THEN "invalid_argument"
          ELSE IF ToInt(Len(board.thermal_zones)) > MAX_THERMAL_ZONES
            THEN "invalid_argument"
          ELSE "ok"
    /\ UNCHANGED <<pc, callers, budget, run_limit, emc_actmon_path, board,
                   config, flags, t0_s, joinable, buffers, sync, barrier, fds,
                   loops, owner, clock, file>>

\* the boards handed to the constructor
BoardInputs ==
    { Board(c, r, z) : c \in (0 - 1)..MaxCoresTried, r \in 0..MaxRailsTried,
                       z \in 0..MaxZonesTried }

\* the frequencies handed to the constructor
ConfigInputs ==
    { Config(f, m, s) : f \in 0..MaxHzTried, m \in 0..MaxHzTried,
                        s \in 0..MaxHzTried }

CtorInit ==
    /\ Members({WaitScenario})
    /\ board \in BoardInputs
    /\ config \in ConfigInputs
    /\ ctor = "pending"

CtorNext == Construct

CtorSpec == CtorInit /\ [][CtorNext]_vars

\* ---- specifications -----------------------------------------------------
OwnerNext ==
    \/ StartCheck \/ StartThrow \/ StartSetRunning \/ StartResetWarmedUp
    \/ StartResetCount \/ StartClearBuffers \/ StartClearSync \/ StartOpenFds
    \/ \E t \in Tiers : StartSpawn(t)
    \/ StopCall \/ StopClearRunning
    \/ \E t \in Tiers : StopJoin(t)
    \/ WriteOpen \/ StopThrow \/ WriteHeader \/ WriteSamples \/ WriteSync
    \/ CloseFds
    \/ Destroy

FastNext ==
    \/ WarmLoop \/ WarmBump \/ WarmSleep
    \/ PublishLock \/ PublishStore \/ PublishNotify
    \/ FastLoop \/ SteadyBump \/ FastSleep

GatedNext ==
    \E t \in Gated : TierLoop(t)

WaitNext ==
    \/ \E w \in Waiters : WaitCall(w)
    \/ \E t \in Gated \cup Waiters :
          WfwLock(t) \/ WfwCheck(t) \/ WfwWait(t) \/ SpuriousWake(t)

SyncNext ==
    \E s \in Syncers :
       SyncLock(s) \/ SyncSize(s) \/ SyncLoad(s) \/ SyncPush(s) \/ SyncReturn(s)

Next == OwnerNext \/ FastNext \/ GatedNext \/ WaitNext \/ SyncNext

Spec == Init /\ [][Next]_vars

\* ---- the same engine under a fair scheduler -----------------------------
\* One run with a client on the barrier.  Every thread that can take a step
\* is eventually scheduled, and a thread waiting for a mutex that is released
\* again and again eventually gets it (strong fairness).  The owner is not
\* obliged to call start(), stop() or the destructor, a client is not
\* obliged to call wait_for_warmup(), and no spurious wake-up is promised.
FairScenario ==
    [callers |-> {"w1"}, budget |-> FullBudget, runs |-> 1, emc |-> EmcPath]

InitFair == InitIn({FairScenario})

OwnerProgress ==
    \/ StartThrow \/ StartSetRunning \/ StartResetWarmedUp \/ StartResetCount
    \/ StartClearBuffers \/ StartClearSync \/ StartOpenFds
    \/ \E t \in Tiers : StartSpawn(t)
    \/ StopClearRunning
    \/ \E t \in Tiers : StopJoin(t)
    \/ WriteOpen \/ StopThrow \/ WriteHeader \/ WriteSamples \/ WriteSync
    \/ CloseFds

WaitProgress(t) == WfwLock(t) \/ WfwCheck(t) \/ WfwWait(t)

NextFair == OwnerNext \/ FastNext \/ GatedNext \/ WaitNext

Fairness ==
    /\ WF_vars(OwnerProgress)
    /\ SF_vars(FastNext)
    /\ \A t \in Gated : SF_vars(WaitProgress(t) \/ TierLoop(t))
    /\ \A w \in Waiters : SF_vars(WaitProgress(w))

FairSpec == InitFair /\ [][NextFair]_vars /\ Fairness

\* ---- boards with names of several lengths -------------------------------
\* One run with a client on the barrier, on a board whose rail labels and
\* zone names have n characters and whose board name has as many characters
\* more as its header field is wider, for n below, at and above the width
\* of the header fields, with the default or with other frequencies.
NamedBoard(n) ==
    BoardConfig(Str(1, n + (BoardNameBytes - NameBytes)),
                1 + (n % MAX_CPU_CORES),
                [i \in 1..NumRails |-> Str(1 + i, n)],
                [i \in 1..2 |-> Str(11 + i, n)])

NamedBoards == { NamedBoard(n) : n \in {1} \cup (NameBytes - 2)..MaxLabelLen }

InitEcho ==
    /\ Members({FairScenario})
    /\ board \in NamedBoards
    /\ config \in {DefaultConfig, Config(1, 2, 3)}
    /\ ctor = "ok"

EchoSpec == InitEcho /\ [][NextFair]_vars

\* ---- the readers (lines 26-40, 142-309) ----------------------------------
\* Percentages are float in the code; here a percentage is an integer number
\* of thousandths of a percent (Pct(100) is 100.0f, 0 - Pct(1) is -1.0f), a
\* quotient being cut to the thousandth below.  A temperature is a number of
\* thousandths of a degree.
Pct(n) == n * 1000

Clamp(v, lo, hi) == IF v < lo THEN lo ELSE IF v > hi THEN hi ELSE v

\* sysfs_read (lines 26-34) returns more than 0
Readable(fd, f) == fd >= 0 /\ f.kind # "fail"

\* What atoi may return for the text of f: the int it spells, or, for digits
\* beyond the range of int, where atoi is undefined, any int.
AnyInt == {(0 - INT_MAX) - 1, 0 - 1, 0, 1, INT_MAX}
atoi(f) == IF f.kind = "int" THEN {f.v} ELSE AnyInt

\* sysfs_read_int (lines 36-40): the values it may return
sysfs_read_int(fd, f) == IF Readable(fd, f) THEN atoi(f) ELSE {0}

\* a reader that stores whatever the file says
read_gpu_load_Unclamped(v) == v

\* read_gpu_load (lines 142-145) for v = sysfs_read_int(fd_gpu_load_)
read_gpu_load(v) == Clamp(v, 0, 1000)

\* lines 203-205: the sum of the first 8 of the 10 fields, and idle + iowait
Total(vals) ==
    vals[1] + vals[2] + vals[3] + vals[4] + vals[5] + vals[6] + vals[7]
      + vals[8]
IdleVal(vals) == vals[4] + vals[5]

\* uint64_t a - b.  A difference d below zero wraps to 2^64 - |d|, which is
\* written here as the negative number d itself.
Sub64(a, b) == a - b

\* lines 212-216 for d_total and d_idle as Sub64 gives them.  A wrapped
\* d_total is above 0.  A wrapped numerator over a small d_total is far
\* above 100; a small numerator over a wrapped d_total is below a thousandth;
\* two wrapped values both convert to the float 2^64 and give 100.
Util(d_total, d_idle) ==
    LET num == Sub64(d_total, d_idle)
    IN  IF d_total = 0 THEN 0
        ELSE IF d_total > 0
          THEN IF num < 0 THEN Pct(100) + 1 ELSE (Pct(100) * num) \div d_total
        ELSE IF num < 0 THEN Pct(100) ELSE 0

RECURSIVE SumUtil(_, _)
SumUtil(per_core, n) ==
    IF n = 0 THEN 0 ELSE SumUtil(per_core, n - 1) + per_core[n]

\* lines 186-187: the loop ends at num_cpu_cores or when the lines end
CoresParsed(f) ==
    IF Len(f.lines) < board.num_cpu_cores THEN Len(f.lines)
    ELSE board.num_cpu_cores

\* read_cpu (lines 147-228) for the content f of /proc/stat and the value
\* prev of prev_cpu_: the 16 slots of per_core (zero on entry, FastSample
\* s{}), the aggregate and the new value of prev_cpu_
read_cpu(f, prev) ==
    IF ~Readable(fd_proc_stat, f)
      THEN [per_core |-> [c \in 1..MAX_CPU_CORES |-> 0], aggregate |-> 0,
            prev |-> prev]
      ELSE LET n == CoresParsed(f)
               per_core ==
                 [c \in 1..MAX_CPU_CORES |->
                    IF c <= n
                      THEN Clamp(Util(Sub64(Total(f.lines[c]), prev[c].total),
                                      Sub64(IdleVal(f.lines[c]), prev[c].idle)),
                                 0, Pct(100))
                      ELSE 0]
           IN  [per_core |-> per_core,
                aggregate |-> IF n > 0 THEN SumUtil(per_core, n) \div n ELSE 0,
                prev |-> [c \in 1..Len(prev) |->
                            IF c <= n
                              THEN CpuJiffies(Total(f.lines[c]),
                                              IdleVal(f.lines[c]))
                              ELSE prev[c]]]

\* read_ram (lines 230-263)
read_ram(f) ==
    IF ~Readable(fd_meminfo, f)
      THEN [used_kb |-> 0, available_kb |-> 0]
      ELSE [used_kb |-> IF f.total >= f.available
                          THEN f.total - f.available ELSE 0,
            available_kb |-> f.available]

\* read_emc (lines 265-274) for v = atoi(buf)
read_emc(f, v) ==
    IF fd_emc < 0 THEN 0 - Pct(1)
    ELSE IF ~Readable(fd_emc, f) THEN 0 - Pct(1)
    ELSE Pct(Clamp(v, 0, 100))

\* FastSample as lines 348-353 fill it at time t from the pseudo-files
\* `files`, for g = sysfs_read_int(fd_gpu_load_) and e = atoi of the EMC file
FastSample(t, files, prev, g, e) ==
    [time_s |-> t,
     gpu_load |-> read_gpu_load(g),
     cpu_util |-> read_cpu(files.stat, prev).per_core,
     cpu_aggregate |-> read_cpu(files.stat, prev).aggregate,
     ram_used_kb |-> read_ram(files.mem).used_kb,
     ram_available_kb |-> read_ram(files.mem).available_kb,
     emc_util |-> read_emc(files.emc, e)]

\* MediumSample as lines 369-370 and read_power (lines 276-294) fill it, for
\* v[i] and c[i] = sysfs_read_int of the two files of rail i (not negative
\* here); power_mw is v * c / 1000
MediumSample(t, v, c) ==
    [time_s |-> t,
     voltage_mv |-> [i \in 1..MAX_POWER_RAILS |->
                       IF i <= Len(board.power_rails) THEN v[i] ELSE 0],
     current_ma |-> [i \in 1..MAX_POWER_RAILS |->
                       IF i <= Len(board.power_rails) THEN c[i] ELSE 0],
     power_mw |-> [i \in 1..MAX_POWER_RAILS |->
                     IF i <= Len(board.power_rails)
                       THEN (v[i] * c[i]) \div 1000 ELSE 0]]

\* SlowSample as lines 387-388 and read_thermals (lines 296-307) fill it,
\* for m[i] = sysfs_read_int of the file of zone i
SlowSample(t, m) ==
    [time_s |-> t,
     temp_c |-> [i \in 1..MAX_THERMAL_ZONES |->
                   IF i <= Len(board.thermal_zones) THEN m[i] ELSE 0]]

\* ---- the pseudo-files a loop iteration may find --------------------------
\* a line of /proc/stat: user, idle and iowait may differ from zero; guest
\* time is counted within user as well
StatLine(user, idle, iowait) ==
    <<user, 0, 0, idle, iowait, 0, 0, 0, user, 0>>

\* the core was busy for u jiffies and either never idle or idle for
\* MaxJiffy - 1 jiffies and waiting for one
StatLines ==
    { StatLine(u, 0, 0) : u \in 0..MaxJiffy }
      \cup { StatLine(u, MaxJiffy - 1, 1) : u \in 0..MaxJiffy }

\* every file readable, with everyday contents
Baseline ==
    [gpu |-> IntFile(500),
     stat |-> StatFile(<<StatLine(1, 1, 0), StatLine(1, 1, 0)>>),
     mem |-> MemFile(8, 3),
     emc |-> IntFile(50),
     voltage |-> [i \in 1..Len(board.power_rails) |-> IntFile(5000)],
     current |-> [i \in 1..Len(board.power_rails) |-> IntFile(200)],
     thermal |-> [i \in 1..Len(board.thermal_zones) |-> IntFile(45000)]]

\* every read fails
AllUnreadable ==
    [gpu |-> Unreadable, stat |-> NoStat, mem |-> NoMem, emc |-> Unreadable,
     voltage |-> [i \in 1..Len(board.power_rails) |-> Unreadable],
     current |-> [i \in 1..Len(board.power_rails) |-> Unreadable],
     thermal |-> [i \in 1..Len(board.thermal_zones) |-> Unreadable]]

\* Baseline with one file changed: unreadable, out of range, negative,
\* beyond int, fewer lines than cores, counters that moved either way
Snapshots ==
    {Baseline, AllUnreadable}
      \cup { [Baseline EXCEPT !.gpu = f] :
               f \in {Unreadable, IntFile(0 - 5), IntFile(2000), HugeFile} }
      \cup { [Baseline EXCEPT !.emc = f] :
               f \in {Unreadable, IntFile(0 - 3), IntFile(200), HugeFile} }
      \cup { [Baseline EXCEPT !.mem = f] : f \in {NoMem, MemFile(3, 8)} }
      \cup { [Baseline EXCEPT !.stat = f] :
               f \in {NoStat, StatFile(<<>>)}
                       \cup { StatFile(<<l>>) : l \in StatLines }
                       \cup { StatFile(<<l, l>>) : l \in StatLines } }
      \cup { [Baseline EXCEPT !.voltage[i] = Unreadable] :
               i \in 1..Len(board.power_rails) }
      \cup { [Baseline EXCEPT !.current[i] = Unreadable] :
               i \in 1..Len(board.power_rails) }
      \cup { [Baseline EXCEPT !.thermal[i] = f] :
               i \in 1..Len(board.thermal_zones),
               f \in {Unreadable, IntFile(0 - 2000)} }

\* ---- the steady loops, one iteration a step ------------------------------
TicksLeft == iter["fast"] + iter["medium"] + iter["slow"] < MaxTicks

\* an iteration of run_fast that gives up the sample when a read failed
FastTick_DropOnFailure ==
    /\ pc["fast"] = "fast_loop"
    /\ running
    /\ TicksLeft
    /\ \E files \in Snapshots :
         \E g \in sysfs_read_int(fd_gpu_load, files.gpu) :
           \E e \in atoi(files.emc) :
              /\ IF Readable(fd_gpu_load, files.gpu)
                   THEN /\ fast_samples' =
                             Append(fast_samples,
                                    FastSample(now - t0_s, files, prev_cpu,
                                               g, e))
                        /\ fast_count' = fast_count + 1
                   ELSE UNCHANGED <<fast_samples, fast_count>>
              /\ prev_cpu' = read_cpu(files.stat, prev_cpu).prev
              /\ sysfs' = files
    /\ iter' = [iter EXCEPT !["fast"] = @ + 1]
    /\ now' = now + 1
    /\ UNCHANGED <<pc, scen, running, warmed_up, t0_s, joinable,
                   medium_samples, slow_samples, sync, barrier, fds, next,
                   entry, owner, fast_i, file>>

\* lines 347-358: one iteration of the steady loop of run_fast: the sample
\* is read, appended and counted, and the thread sleeps
FastTick ==
    /\ pc["fast"] = "fast_loop"
    /\ running
    /\ TicksLeft
    /\ \E files \in Snapshots :
         \E g \in sysfs_read_int(fd_gpu_load, files.gpu) :
           \E e \in atoi(files.emc) :
              /\ fast_samples' =
                   Append(fast_samples,
                          FastSample(now - t0_s, files, prev_cpu, g, e))
              /\ prev_cpu' = read_cpu(files.stat, prev_cpu).prev
              /\ sysfs' = files
    /\ fast_count' = fast_count + 1
    /\ iter' = [iter EXCEPT !["fast"] = @ + 1]
    /\ now' = now + 1
    /\ UNCHANGED <<pc, scen, running, warmed_up, t0_s, joinable,
                   medium_samples, slow_samples, sync, barrier, fds, next,
                   entry, owner, fast_i, file>>

\* the values sysfs_read_int may return for the files of a vector of handles
ReadInts(fd, fs) ==
    { r \in [1..Len(fs) ->
                UNION { sysfs_read_int(fd[i], fs[i]) : i \in 1..Len(fs) }] :
        \A i \in 1..Len(fs) : r[i] \in sysfs_read_int(fd[i], fs[i]) }

\* lines 368-376: one iteration of the loop of run_medium
MediumTick ==
    /\ pc["medium"] = "loop"
    /\ running
    /\ TicksLeft
    /\ \E files \in Snapshots :
         \E v \in ReadInts(fd_voltage, files.voltage) :
           \E c \in ReadInts(fd_current, files.current) :
              /\ medium_samples' =
                   Append(medium_samples, MediumSample(now - t0_s, v, c))
              /\ sysfs' = files
    /\ iter' = [iter EXCEPT !["medium"] = @ + 1]
    /\ now' = now + 1
    /\ UNCHANGED <<pc, scen, flags, t0_s, joinable, fast_samples,
                   slow_samples, sync, barrier, fds, prev_cpu, next, entry,
                   owner, fast_i, file>>

\* lines 386-394: one iteration of the loop of run_slow
SlowTick ==
    /\ pc["slow"] = "loop"
    /\ running
    /\ TicksLeft
    /\ \E files \in Snapshots :
         \E m \in ReadInts(fd_thermal, files.thermal) :
              /\ slow_samples' =
                   Append(slow_samples, SlowSample(now - t0_s, m))
              /\ sysfs' = files
    /\ iter' = [iter EXCEPT !["slow"] = @ + 1]
    /\ now' = now + 1
    /\ UNCHANGED <<pc, scen, flags, t0_s, joinable, fast_samples,
                   medium_samples, sync, barrier, fds, prev_cpu, next, entry,
                   owner, fast_i, file>>

\* ---- a running engine past the barrier -----------------------------------
\* start() has returned on a board with two cores, some of its open() calls
\* having failed; the primer loop has taken its samples from the Baseline
\* files, one per clock tick, and the barrier is published; the three
\* threads are in their steady loops.
TickBoard == Board(2, NumRails, 1)

Handles == {"gpu", "stat", "mem", "emc", "voltage", "current", "thermal"}

\* the open() calls that failed: none, that of the EMC file, or all
LostHandles == {{}, {"emc"}, Handles}

Opened(h, lost) == IF h \in lost THEN FdNone ELSE FdOpen

BaselineInt(fd, f) == CHOOSE v \in sysfs_read_int(fd, f) : TRUE

\* prev_cpu_ after the first iteration of the primer loop
PrimedCpu ==
    read_cpu(Baseline.stat,
             [c \in 1..board.num_cpu_cores |-> CpuJiffies(0, 0)]).prev

PrimerSample(i) ==
    FastSample(i - 1, Baseline,
               IF i = 1
                 THEN [c \in 1..board.num_cpu_cores |-> CpuJiffies(0, 0)]
                 ELSE PrimedCpu,
               BaselineInt(fd_gpu_load, Baseline.gpu),
               BaselineInt(fd_emc, Baseline.emc))

TickInit ==
    /\ pc = [t \in Threads |->
               IF t = "fast" THEN "fast_loop"
               ELSE IF t \in Gated THEN "loop" ELSE "idle"]
    /\ callers = {}
    /\ budget = FullBudget
    /\ run_limit = 1
    /\ emc_actmon_path = EmcPath
    /\ board = TickBoard
    /\ config = DefaultConfig
    /\ ctor = "ok"
    /\ running = TRUE
    /\ warmed_up = TRUE
    /\ fast_count = WarmupSamples
    /\ \E lost \in LostHandles :
         /\ fd_gpu_load = Opened("gpu", lost)
         /\ fd_proc_stat = Opened("stat", lost)
         /\ fd_meminfo = Opened("mem", lost)
         /\ fd_emc = Opened("emc", lost)
         /\ fd_voltage = [i \in 1..NumRails |-> Opened("voltage", lost)]
         /\ fd_current = [i \in 1..NumRails |-> Opened("current", lost)]
         /\ fd_thermal = [i \in 1..1 |-> Opened("thermal", lost)]
    /\ fast_samples = [i \in 1..WarmupSamples |-> PrimerSample(i)]
    /\ medium_samples = <<>>
    /\ slow_samples = <<>>
    /\ sync_points = <<>>
    /\ sync_mtx = NoOwner
    /\ warmup_mtx = NoOwner
    /\ warmup_cv = {}
    /\ joinable = [t \in Tiers |-> TRUE]
    /\ t0_s = 0
    /\ now = WarmupSamples
    /\ fast_i = WarmupSamples
    /\ sync_id = [s \in Syncers |-> 0]
    /\ sync_idx = [s \in Syncers |-> 0]
    /\ runs = 1
    /\ in_dtor = FALSE
    /\ prev_cpu = PrimedCpu
    /\ sysfs = Baseline
    /\ iter = [t \in Tiers |-> 0]
    /\ next = [t \in Tiers |-> timespec(0, 0)]
    /\ entry = [t \in Tiers |-> timespec(0, 0)]
    /\ file = NoFile

TickNext == FastTick \/ MediumTick \/ SlowTick

TickSpec == TickInit /\ [][TickNext]_vars

\* ---- the deadlines of the steady loops -----------------------------------
\* Here the clock counts nanoseconds.
hz(t) ==
    IF t = "fast" THEN config.fast_hz
    ELSE IF t = "medium" THEN config.medium_hz ELSE config.slow_hz

\* lines 320, 365, 383
interval_ns(t) == NsPerSec \div hz(t)

\* clock_gettime(CLOCK_MONOTONIC, &ts) at clock value n
clock_gettime(n) == timespec(n \div NsPerSec, n % NsPerSec)

\* the clock value at which the deadline ts is reached
Nanos(ts) == ts.tv_sec * NsPerSec + ts.tv_nsec

\* lines 313-316: the while loop of timespec_add_ns
RECURSIVE Normalize(_)
Normalize(ts) ==
    IF ts.tv_nsec >= NsPerSec
      THEN Normalize(timespec(ts.tv_sec + 1, ts.tv_nsec - NsPerSec))
      ELSE ts

\* timespec_add_ns (lines 311-317)
timespec_add_ns(ts, ns) == Normalize(timespec(ts.tv_sec, ts.tv_nsec + ns))

\* lines 343-345, 366-367, 384-385: the deadline is captured
LoopEnter(t) ==
    /\ pc[t] = "enter"
    /\ next' = [next EXCEPT ![t] = clock_gettime(now)]
    /\ entry' = [entry EXCEPT ![t] = clock_gettime(now)]
    /\ Goto(t, "body")
    /\ UNCHANGED <<scen, flags, t0_s, joinable, buffers, sync, barrier, fds,
                   prev_cpu, sysfs, iter, owner, clock, file>>

\* the time one loop body takes: a quarter of the interval, or an overrun
\* of more than two intervals
BodyTimes(t) == {interval_ns(t) \div 4, 2 * interval_ns(t) + 1}

PaceLeft == iter["fast"] + iter["medium"] + iter["slow"] < MaxPace

\* lines 347-355, 368-371, 386-389: the loop test and the body, which takes
\* its sample and some time
LoopBody(t) ==
    /\ pc[t] = "body"
    /\ running
    /\ PaceLeft
    /\ fast_samples' = IF t = "fast"
                         THEN Append(fast_samples, Sample(now - t0_s))
                         ELSE fast_samples
    /\ fast_count' = IF t = "fast" THEN fast_count + 1 ELSE fast_count
    /\ medium_samples' = IF t = "medium"
                           THEN Append(medium_samples, Sample(now - t0_s))
                           ELSE medium_samples
    /\ slow_samples' = IF t = "slow"
                         THEN Append(slow_samples, Sample(now - t0_s))
                         ELSE slow_samples
    /\ \E d \in BodyTimes(t) : now' = now + d
    /\ Goto(t, "sleep")
    /\ UNCHANGED <<scen, loops, running, warmed_up, t0_s, joinable, sync,
                   barrier, fds, owner, fast_i, file>>

\* a loop that counts its interval from the time the body ended
LoopSleep_Rebased(t) ==
    /\ pc[t] = "sleep"
    /\ next' = [next EXCEPT
                  ![t] = timespec_add_ns(clock_gettime(now), interval_ns(t))]
    /\ now' = IF Nanos(next'[t]) > now THEN Nanos(next'[t]) ELSE now
    /\ iter' = [iter EXCEPT ![t] = @ + 1]
    /\ Goto(t, "body")
    /\ UNCHANGED <<scen, flags, t0_s, joinable, buffers, sync, barrier, fds,
                   prev_cpu, sysfs, entry, owner, fast_i, file>>

\* lines 357-358, 373-374, 391-392: the interval is added to `next` and the
\* thread sleeps until that absolute time, which may have passed
LoopSleep(t) ==
    /\ pc[t] = "sleep"
    /\ next' = [next EXCEPT ![t] = timespec_add_ns(next[t], interval_ns(t))]
    /\ now' = IF Nanos(next'[t]) > now THEN Nanos(next'[t]) ELSE now
    /\ iter' = [iter EXCEPT ![t] = @ + 1]
    /\ Goto(t, "body")
    /\ UNCHANGED <<scen, flags, t0_s, joinable, buffers, sync, barrier, fds,
                   prev_cpu, sysfs, entry, owner, fast_i, file>>

\* the clock values at which the barrier is published
PaceStarts == {NsPerSec - 1000000, NsPerSec - 1}

\* start() has returned, the primer loop has taken its samples, one per
\* interval, and the barrier is published; each thread is about to capture
\* its deadline.
PaceInit ==
    /\ pc = [t \in Threads |-> IF t \in Tiers THEN "enter" ELSE "idle"]
    /\ callers = {}
    /\ budget = FullBudget
    /\ run_limit = 1
    /\ emc_actmon_path = EmcPath
    /\ board = ModelBoard
    /\ config \in {DefaultConfig, Config(30, 60, 10)}
    /\ ctor = "ok"
    /\ running = TRUE
    /\ warmed_up = TRUE
    /\ fast_count = WarmupSamples
    /\ fast_samples =
         [i \in 1..WarmupSamples |-> Sample((i - 1) * interval_ns("fast"))]
    /\ medium_samples = <<>>
    /\ slow_samples = <<>>
    /\ sync_points = <<>>
    /\ sync_mtx = NoOwner
    /\ warmup_mtx = NoOwner
    /\ warmup_cv = {}
    /\ joinable = [t \in Tiers |-> TRUE]
    /\ t0_s = 0
    /\ now \in PaceStarts
    /\ fast_i = WarmupSamples
    /\ sync_id = [s \in Syncers |-> 0]
    /\ sync_idx = [s \in Syncers |-> 0]
    /\ runs = 1
    /\ in_dtor = FALSE
    /\ fd_gpu_load = FdOpen
    /\ fd_proc_stat = FdOpen
    /\ fd_meminfo = FdOpen
    /\ fd_emc = FdOpen
    /\ fd_voltage = [i \in 1..Len(board.power_rails) |-> FdOpen]
    /\ fd_current = [i \in 1..Len(board.power_rails) |-> FdOpen]
    /\ fd_thermal = [i \in 1..Len(board.thermal_zones) |-> FdOpen]
    /\ prev_cpu = [c \in 1..board.num_cpu_cores |-> CpuJiffies(0, 0)]
    /\ sysfs = NothingRead
    /\ iter = [t \in Tiers |-> 0]
    /\ next = [t \in Tiers |-> timespec(0, 0)]
    /\ entry = [t \in Tiers |-> timespec(0, 0)]
    /\ file = NoFile

PaceNext == \E t \in Tiers : LoopEnter(t) \/ LoopBody(t) \/ LoopSleep(t)

PaceSpec == PaceInit /\ [][PaceNext]_vars

\* ---- positions of the owner ----------------------------------------------
StartLabels ==
    {"start_running", "start_warmed", "start_count", "start_clear",
     "start_clear_sync", "start_open", "start_spawn_fast",
     "start_spawn_medium", "start_spawn_slow"}

\* stop() has executed line 107 and has not returned or thrown yet
StopLabels ==
    {"stop_join_fast", "stop_join_medium", "stop_join_slow", "wf_open",
     "wf_header", "wf_samples", "wf_sync", "close_fds", "stop_throw"}

\* the owner is between two calls, or about to execute the first statement
\* of stop(), or receiving the AlreadyRunning error
BetweenCalls == pc[Ctl] \in {"idle", "start_throw", "stop_clear"}

TierPcs == [t \in Tiers |-> pc[t]]

\* ---- C1 -----------------------------------------------------------------
\* C1: a start() call made while running_ is true throws (AlreadyRunning)
\* and neither that step nor the propagation of the exception changes the
\* run: running_, warmed_up_, fast_count_, t0_s_, the three sample buffers,
\* the sync-point log, the thread objects and the positions of the tier
\* threads are left as they were.
C1_RunState ==
    <<running, warmed_up, fast_count, t0_s, joinable, fast_samples,
      medium_samples, slow_samples, sync_points, TierPcs, runs>>

C1_StartWhileRunningThrows ==
    [][ /\ (pc[Ctl] = "idle" /\ running /\ pc'[Ctl] \in StartLabels \cup {"start_throw"})
           => (pc'[Ctl] = "start_throw" /\ UNCHANGED C1_RunState)
        /\ (pc[Ctl] = "start_throw" /\ pc'[Ctl] # "start_throw")
           => (pc'[Ctl] = "idle" /\ UNCHANGED C1_RunState) ]_vars

\* a start() call has thrown in the middle of a run that has taken samples
C1_Witness ==
    /\ pc[Ctl] = "start_throw"
    /\ running
    /\ fast_count > 0
    /\ pc["fast"] = "warm_sleep"

\* ---- C2 -----------------------------------------------------------------
\* C2 as claimed: is_running() is true from the return of start() until
\* stop() has completed, and false before the first start() and after stop().
C2_RunningUntilStopCompleted ==
    /\ (pc[Ctl] \in StopLabels) => running
    /\ (BetweenCalls /\ joinable["slow"]) => running
    /\ (BetweenCalls /\ ~joinable["fast"]) => ~running

\* C2 as amended: is_running() is true from line 87 of start() until stop()
\* executes its first statement (line 107); it is false while stop() joins
\* the threads, writes the file and closes the descriptors, false before the
\* first start(), and false after stop() has returned or thrown.
C2_RunningUntilStopBegins ==
    /\ (pc[Ctl] \in StopLabels) => ~running
    /\ (BetweenCalls /\ joinable["slow"]) => running
    /\ (BetweenCalls /\ ~joinable["fast"]) => ~running
    /\ (pc[Ctl] \in StartLabels \ {"start_running"}) => running
    /\ (pc[Ctl] \in {"destroyed", "terminated"}) => ~running

\* stop() is joining: the flag is already false while a tier thread of the
\* run is still alive
C2_Witness ==
    /\ pc[Ctl] = "stop_join_medium"
    /\ ~running
    /\ joinable["medium"]
    /\ pc["medium"] # "done"

\* ---- the warmup barrier --------------------------------------------------
Barriered == Gated \cup Waiters

\* thread t is inside wait_for_warmup()
InWait(t) == pc[t] \in {"wfw_lock", "wfw_check", "wfw_wait", "wfw_blocked"}

\* this step is the return of thread t from wait_for_warmup()
WfwReturns(t) == pc[t] = "wfw_check" /\ pc'[t] = AfterWait(t)

AllJoined == \A t \in Tiers : ~joinable[t] /\ pc[t] = "none"

\* ---- C3 -----------------------------------------------------------------
\* C3 as claimed: a thread that evaluates the wait predicate of
\* wait_for_warmup() while running_ is false is released, whatever
\* warmed_up_ is.
C3_ReleasedWhenNotRunning ==
    [][ \A t \in Barriered :
          (pc[t] = "wfw_check" /\ ~running /\ pc'[t] # "wfw_check")
             => pc'[t] = AfterWait(t) ]_vars

\* ---- C4 -----------------------------------------------------------------
\* C4: once stop() has cleared running_ while warmed_up_ is still false, the
\* three tier threads end and are joined and the stop() call ends (it
\* returns, or it surfaces the failure of the writer).
C4_StopDuringWarmupEnds ==
    (pc[Ctl] = "stop_join_fast" /\ ~warmed_up)
       ~> (AllJoined /\ pc[Ctl] \in {"idle", "destroyed", "terminated"})

\* a run stopped inside the primer phase whose three threads were joined
C4_Witness ==
    /\ pc[Ctl] = "wf_open"
    /\ runs = 1
    /\ fast_count > 0
    /\ fast_count < WarmupSamples
    /\ AllJoined

\* ---- C5 -----------------------------------------------------------------
\* C5 as claimed: whenever a wait_for_warmup() call returns, fast_count_ is
\* at least 10.
C5_TenSamplesAtReturn ==
    [][ \A t \in Barriered :
          (WfwReturns(t) /\ runs >= 1) => fast_count >= WarmupSamples ]_vars

\* C5 as amended: whenever a wait_for_warmup() call returns while the engine
\* is running (start() has returned and stop() has not cleared running_),
\* fast_count_ is at least 10; a stop() during warmup releases the barrier
\* with fewer primer samples.
C5_TenSamplesWhileRunning ==
    [][ \A t \in Barriered :
          (WfwReturns(t) /\ running /\ pc[Ctl] \notin StartLabels)
             => fast_count >= WarmupSamples ]_vars

\* the medium thread and the client have come out of the barrier in a run
\* that is still running
C5_Witness ==
    /\ running
    /\ pc[Ctl] = "idle"
    /\ pc["medium"] = "loop"
    /\ pc["w1"] = "idle"
    /\ pc["slow"] = "wfw_check"
    /\ fast_count >= WarmupSamples

C7_NoLostWakeup ==
    \A t \in Barriered : (InWait(t) /\ warmed_up) ~> ~InWait(t)

\* the fast thread has stored the flag and is about to notify while the
\* client and the medium thread are blocked in the condition variable
C7_Witness ==
    /\ pc["fast"] = "pub_notify"
    /\ warmed_up
    /\ {"w1", "medium"} \subseteq warmup_cv

\* ---- C8 -----------------------------------------------------------------
\* C8 as claimed: the sync-point log holds the ids 1, 2, ..., n in insertion
\* order (so the n-th sync() returns n and no two calls return the same id).
C8_DenseSyncIds ==
    \A i \in 1..Len(sync_points) : sync_points[i].sync_id = i

\* ---- C9 -----------------------------------------------------------------
\* start() is between its first store (line 87) and the clear of the log
\* (line 94): the log still holds the entries of the previous run
LogOfPreviousRun ==
    pc[Ctl] \in {"start_warmed", "start_count", "start_clear",
                 "start_clear_sync"}

\* C9 as claimed: within a run (from the clear of the log by start() on),
\* every entry of the log holds a value fast_count_ had when the entry was
\* made (so it is not above the present count), and the fast_sample_idx
\* values are non-decreasing in insertion order.
C9_SyncIdxNonDecreasing ==
    ~LogOfPreviousRun =>
       /\ \A i \in 1..Len(sync_points) :
             sync_points[i].fast_sample_idx <= fast_count
       /\ \A i, j \in 1..Len(sync_points) :
             i < j => sync_points[i].fast_sample_idx
                         <= sync_points[j].fast_sample_idx

\* ---- C10 ----------------------------------------------------------------
\* thread t is at a statement that reads or writes sync_points_
AtLogAccess(t) ==
    IF t = Ctl THEN pc[t] \in {"start_clear_sync", "wf_header", "wf_sync"}
    ELSE pc[t] \in {"sync_size", "sync_push"}

\* C10 as claimed: a thread that accesses the sync-point log holds sync_mtx_,
\* so two threads are never at an access of the log at the same time.
C10_LogAccessUnderMutex ==
    /\ \A t \in {Ctl} \cup Syncers : AtLogAccess(t) => sync_mtx = t
    /\ \A t, u \in {Ctl} \cup Syncers :
          (AtLogAccess(t) /\ AtLogAccess(u)) => t = u

\* ---- the trace file -------------------------------------------------------
\* write_file has run to its fclose: every block is in the file
FileComplete(f) == f.exists /\ Len(f.layout) = 5

\* ---- C11 ----------------------------------------------------------------
\* C11 as claimed: in the file of every completed stop() the four counts of
\* the header equal the numbers of records written in the four arrays, and
\* the size of the file is 728 + 98 F + 104 M + 72 S + 16 K for the counts
\* F, M, S, K of the header.
C11_HeaderCountsMatchFile ==
    FileComplete(file) =>
       /\ file.hdr.num_fast_samples = Len(file.fast)
       /\ file.hdr.num_medium_samples = Len(file.medium)
       /\ file.hdr.num_slow_samples = Len(file.slow)
       /\ file.hdr.num_sync_points = Len(file.sync)
       /\ FileBytes(file) =
             728 + 98 * file.hdr.num_fast_samples
                 + 104 * file.hdr.num_medium_samples
                 + 72 * file.hdr.num_slow_samples
                 + 16 * file.hdr.num_sync_points

\* ---- C12 ----------------------------------------------------------------
\* the owner is inside write_file
WriteLabels == {"wf_open", "wf_header", "wf_samples", "wf_sync"}

C13_CountFollowsAppends ==
    /\ [](pc["fast"] = "done" => fast_count = Len(fast_samples))
    /\ [][ /\ (fast_count' # fast_count) =>
                 \/ /\ pc[Ctl] = "start_count"
                    /\ pc'[Ctl] = "start_clear"
                    /\ fast_count' = 0
                 \/ /\ pc["fast"] \in {"warm_bump", "fast_bump"}
                    /\ fast_count' = fast_count + 1
                    /\ Len(fast_samples) = fast_count'
                    /\ UNCHANGED fast_samples
           /\ (fast_samples' # fast_samples /\ fast_samples' # <<>>) =>
                 /\ Len(fast_samples') = Len(fast_samples) + 1
                 /\ fast_count = Len(fast_samples)
                 /\ UNCHANGED fast_count ]_vars

\* second run, steady state: primer and steady samples have been counted
C13_Witness ==
    /\ runs = 2
    /\ pc["fast"] = "fast_sleep"
    /\ fast_count = WarmupSamples + 1
    /\ Len(fast_samples) = fast_count

\* ---- C14 ----------------------------------------------------------------
\* C14 as claimed: in every reachable state
\* fast_count_ <= fast_samples_.size() <= fast_count_ + 1.
C14_CountWithinOneOfBuffer ==
    /\ fast_count <= Len(fast_samples)
    /\ Len(fast_samples) <= fast_count + 1

\* C14 as amended: fast_count_ <= fast_samples_.size() in every reachable
\* state, and fast_samples_.size() <= fast_count_ + 1 in every state except
\* while start() is between its reset of the counter (line 89) and its clear
\* of the fast buffer (line 91), where the buffer still holds the samples of
\* the previous run.
C14_CountNeverAheadOfBuffer ==
    /\ fast_count <= Len(fast_samples)
    /\ (pc[Ctl] # "start_clear") => Len(fast_samples) <= fast_count + 1

\* the fast thread has appended a sample and not counted it yet, in the
\* steady state of a second run
C14_Witness ==
    /\ runs = 2
    /\ pc["fast"] = "fast_bump"
    /\ fast_count = WarmupSamples
    /\ Len(fast_samples) = fast_count + 1

\* ---- C15 ----------------------------------------------------------------
\* C15 as claimed: when start() is about to create the tier threads of a
\* run that follows a stop() which wrote its file, the three sample buffers
\* are empty,
\* fast_count_ is 0, warmed_up_ is false, and the sync-point log holds
\* nothing of the time before this start(): it is empty, or holds the ids
\* 1, 2, ... of sync() calls of the new run, each with fast_sample_idx 0.
C15_FreshRunOnRestart ==
    (pc[Ctl] = "start_spawn_fast" /\ runs >= 2 /\ FileComplete(file)) =>
       /\ fast_samples = <<>>
       /\ medium_samples = <<>>
       /\ slow_samples = <<>>
       /\ fast_count = 0
       /\ ~warmed_up
       /\ \A i \in 1..Len(sync_points) :
             sync_points[i] = SyncPoint(i, 0)

\* ---- C16 ----------------------------------------------------------------
\* no descriptor is open and no descriptor entry is left
NoDescriptors ==
    /\ fd_gpu_load = FdNone /\ fd_proc_stat = FdNone /\ fd_meminfo = FdNone
    /\ fd_emc = FdNone
    /\ fd_voltage = <<>> /\ fd_current = <<>> /\ fd_thermal = <<>>

\* C16 as claimed: once a stop() has ended (it returned, or the failure of
\* the writer left it), no descriptor opened by the matching start() is
\* open, and when the next start() reaches open_fds no entry is left in the
\* descriptor vectors.
C16_DescriptorsClosedByStop ==
    /\ (pc[Ctl] \in {"idle", "destroyed", "terminated"} /\ ~running)
          => NoDescriptors
    /\ (pc[Ctl] = "start_open") => NoDescriptors

\* ---- C17 ----------------------------------------------------------------
\* C17: when fopen fails in write_file, the call leaves stop() by the
\* exception; at that point running_ is false and the three threads have
\* been joined, and an explicit stop() hands the exception to its caller
\* without changing the state of the run.
C17_WriterFailureSurfaced ==
    /\ [](pc[Ctl] = "stop_throw" => (~running /\ AllJoined))
    /\ [][ /\ (pc[Ctl] = "wf_open" /\ pc'[Ctl] # "wf_open" /\ file' = file)
              => pc'[Ctl] = "stop_throw"
           /\ (pc[Ctl] = "stop_throw" /\ ~in_dtor /\ pc'[Ctl] # "stop_throw")
              => (pc'[Ctl] = "idle" /\ UNCHANGED <<running, joinable, file>>)
         ]_vars

\* an explicit stop() of a run that took samples in every tier fails to
\* open the output file
C17_Witness ==
    /\ pc[Ctl] = "stop_throw"
    /\ ~in_dtor
    /\ fast_count > WarmupSamples
    /\ medium_samples # <<>>
    /\ slow_samples # <<>>
    /\ ~file.exists

\* ---- C18 ----------------------------------------------------------------
\* C18 as claimed: when the stop() called by the destructor fails to open
\* the output file, the exception does not leave the destructor and the
\* destruction completes.
C18_DestructorSuppressesError ==
    [][ (pc[Ctl] = "stop_throw" /\ in_dtor /\ pc'[Ctl] # "stop_throw")
           => pc'[Ctl] = "destroyed" ]_vars

\* ---- C19 ----------------------------------------------------------------
\* the destructor has ended: it returned, or an exception left it
DtorEnded == pc[Ctl] \in {"destroyed", "terminated"}

\* the destructor of an engine that is not running changes nothing
IdleDestroyTouchesNothing ==
    (pc[Ctl] = "idle" /\ ~running /\ pc'[Ctl] = "destroyed")
       => UNCHANGED <<joinable, TierPcs, file, fds>>

C20_ConstructorChecksBounds ==
    (ctor # "pending") =>
       (ctor = "invalid_argument"
          <=> \/ board.num_cpu_cores < 1
              \/ board.num_cpu_cores > 16
              \/ Len(board.power_rails) > 8
              \/ Len(board.thermal_zones) > 16)

\* the constructor has accepted the largest board within the limits
C20_Witness ==
    /\ ctor = "ok"
    /\ board = Board(16, 8, 16)

\* ---- C21 ----------------------------------------------------------------
\* C21 as claimed: an engine whose constructor has succeeded has fast_hz,
\* medium_hz and slow_hz all above 0.
C21_FrequenciesPositive ==
    (ctor = "ok") =>
       (config.fast_hz > 0 /\ config.medium_hz > 0 /\ config.slow_hz > 0)

\* ---- C22 ----------------------------------------------------------------
\* C22: the constructor changes nothing but its own outcome: no file is
\* created, no descriptor is opened, no thread is created; once it has
\* succeeded, is_running() is false and sample_count() is 0.
C22_ConstructorOnlyValidates ==
    /\ []((ctor = "ok") =>
             /\ ~running
             /\ fast_count = 0
             /\ ~file.exists
             /\ NoDescriptors
             /\ \A t \in Tiers : ~joinable[t] /\ pc[t] = "none")
    /\ [][ (ctor' # ctor) =>
              UNCHANGED <<file, fds, joinable, pc, flags, buffers,
                          sync_points>> ]_vars

\* an engine with the smallest board and the slowest frequencies has been
\* constructed
C22_Witness ==
    /\ ctor = "ok"
    /\ board = Board(1, 0, 0)
    /\ config = Config(1, 1, 1)

\* ---- C23 ----------------------------------------------------------------
\* the time_s values of a sequence of samples are strictly increasing
StrictlyIncreasing(samples) ==
    \A i, j \in 1..Len(samples) :
       i < j => samples[i].time_s < samples[j].time_s

C24_EmcAvailableIffOpened ==
    /\ []((pc[Ctl] \in {"wf_samples", "wf_sync", "close_fds"}) =>
             file.hdr.emc_available = (IF fd_emc = FdNone THEN 0 ELSE 1))
    /\ [][ (fd_emc' # fd_emc) => pc[Ctl] \in {"start_open", "close_fds"} ]_vars

\* a board without an EMC path: the header of its run says 0 while the
\* sync-point log of the run is not empty
C24_Witness ==
    /\ pc[Ctl] = "close_fds"
    /\ emc_actmon_path = ""
    /\ fd_emc = FdNone
    /\ file.hdr.emc_available = 0
    /\ file.hdr.num_sync_points > 0

\* ---- C25 ----------------------------------------------------------------
\* the scalar fields of the header repeat the constants and the
\* configuration
HeaderScalarsEcho ==
    /\ file.hdr.magic = 1314278740
    /\ file.hdr.version = 1
    /\ file.hdr.num_cpu_cores = board.num_cpu_cores
    /\ file.hdr.num_power_rails = Len(board.power_rails)
    /\ file.hdr.num_thermal_zones = Len(board.thermal_zones)
    /\ file.hdr.fast_hz = config.fast_hz
    /\ file.hdr.medium_hz = config.medium_hz
    /\ file.hdr.slow_hz = config.slow_hz

\* dst is src cut after its first n characters
CutAt(dst, src, n) ==
    /\ Len(dst) = (IF Len(src) <= n THEN Len(src) ELSE n)
    /\ \A k \in 1..Len(dst) : dst[k] = src[k]

\* C25 as claimed: the header written repeats the constants and every value
\* of the configuration, the strings included.
C25_HeaderEchoesInput ==
    HasBlock(file, "header") =>
       /\ HeaderScalarsEcho
       /\ file.hdr.board_name = board.board_name
       /\ \A i \in 1..Len(board.power_rails) :
             file.hdr.power_rail_names[i] = board.power_rails[i]
       /\ \A i \in 1..Len(board.thermal_zones) :
             file.hdr.thermal_zone_names[i] = board.thermal_zones[i]

\* C25 as amended: the header written repeats the constants and the numbers
\* of the configuration; board_name is the configured name cut after 31
\* characters, and every power_rail_names[i] and thermal_zone_names[i] is
\* the configured label or name cut after 23 characters.
C25_HeaderEchoesInputCut ==
    HasBlock(file, "header") =>
       /\ HeaderScalarsEcho
       /\ CutAt(file.hdr.board_name, board.board_name, 31)
       /\ \A i \in 1..Len(board.power_rails) :
             CutAt(file.hdr.power_rail_names[i], board.power_rails[i], 23)
       /\ \A i \in 1..Len(board.thermal_zones) :
             CutAt(file.hdr.thermal_zone_names[i], board.thermal_zones[i], 23)

\* the file of a board whose names are longer than the header fields
C25_Witness ==
    /\ FileComplete(file)
    /\ Len(board.board_name) = 33
    /\ Len(file.hdr.board_name) = 31
    /\ Len(board.thermal_zones[2]) = 25
    /\ Len(file.hdr.thermal_zone_names[2]) = 23
    /\ config = Config(1, 2, 3)


\* ---- C26 ----------------------------------------------------------------
\* C26: every fast sample in the buffer has gpu_load within 0..1000,
\* cpu_aggregate within 0..100 and emc_util equal to -1.0 or within 0..100,
\* whatever the pseudo-files held and whichever reads failed (percentages
\* in thousandths).
C26_FastSampleRanges ==
    \A i \in 1..Len(fast_samples) :
       /\ 0 <= fast_samples[i].gpu_load /\ fast_samples[i].gpu_load <= 1000
       /\ 0 <= fast_samples[i].cpu_aggregate
       /\ fast_samples[i].cpu_aggregate <= 100000
       /\ \/ fast_samples[i].emc_util = 0 - 1000
          \/ /\ 0 <= fast_samples[i].emc_util
             /\ fast_samples[i].emc_util <= 100000

\* two iterations have run; the latest found digits beyond int in the GPU
\* file and stored the upper limit, and a sample in the buffer has the EMC
\* utilisation cut to 100
C26_Witness ==
    /\ iter["fast"] = 2
    /\ sysfs.gpu = HugeFile
    /\ fast_samples[Len(fast_samples)].gpu_load = 1000
    /\ fast_samples[Len(fast_samples) - 1].emc_util = 100000

\* ---- C27 ----------------------------------------------------------------
\* the utilisation the deltas give: 100 * (d_total - d_idle) / d_total cut
\* to 0..100 when d_total > 0 (a negative numerator gives 0), else 0
ClaimedUtil(d_total, d_idle) ==
    IF d_total > 0
      THEN IF d_total - d_idle < 0 THEN 0
           ELSE IF d_total - d_idle > d_total THEN 100000
           ELSE (100000 * (d_total - d_idle)) \div d_total
      ELSE 0

\* C27: in every iteration of the fast loop that reads /proc/stat, each
\* parsed core c gets the utilisation that the deltas of total (the sum of
\* the first 8 fields) and of idle + iowait against prev_cpu_[c] give,
\* and prev_cpu_[c] becomes the new total and idle sum.
C27_UtilizationFromDeltas ==
    [][ (iter'["fast"] = iter["fast"] + 1 /\ fd_proc_stat # FdNone
           /\ sysfs'.stat.kind = "text")
          => \A c \in 1..Len(sysfs'.stat.lines) :
               c <= board.num_cpu_cores =>
                 LET vals     == sysfs'.stat.lines[c]
                     total    == vals[1] + vals[2] + vals[3] + vals[4]
                                   + vals[5] + vals[6] + vals[7] + vals[8]
                     idle_sum == vals[4] + vals[5]
                     d_total  == total - prev_cpu[c].total
                     d_idle   == idle_sum - prev_cpu[c].idle
                 IN  /\ fast_samples'[Len(fast_samples')].cpu_util[c]
                          = ClaimedUtil(d_total, d_idle)
                     /\ prev_cpu'[c].total = total
                     /\ prev_cpu'[c].idle = idle_sum ]_vars

\* ---- C29 ----------------------------------------------------------------
\* the handle is missing or the read failed
Lost(fd, f) == fd = FdNone \/ f.kind = "fail"

\* C29: every iteration of a tier loop appends one sample to the buffer of
\* its tier and leaves the thread in its loop with the engine running, and
\* the fast tier counts the sample, whichever handles are missing and
\* whichever reads fail; the field of a file that could not be read is 0,
\* and -1.0 for the EMC.
C29_FailedReadsKeepTheLoop ==
    [][ /\ iter'["fast"] = iter["fast"] + 1 =>
             LET s == fast_samples'[Len(fast_samples')]
             IN  /\ Len(fast_samples') = Len(fast_samples) + 1
                 /\ fast_count' = fast_count + 1
                 /\ running' /\ pc'["fast"] = "fast_loop"
                 /\ Lost(fd_gpu_load, sysfs'.gpu) => s.gpu_load = 0
                 /\ Lost(fd_proc_stat, sysfs'.stat) =>
                      /\ s.cpu_aggregate = 0
                      /\ \A c \in 1..16 : s.cpu_util[c] = 0
                 /\ Lost(fd_meminfo, sysfs'.mem) =>
                      s.ram_used_kb = 0 /\ s.ram_available_kb = 0
                 /\ Lost(fd_emc, sysfs'.emc) => s.emc_util = 0 - 1000
        /\ iter'["medium"] = iter["medium"] + 1 =>
             LET s == medium_samples'[Len(medium_samples')]
             IN  /\ Len(medium_samples') = Len(medium_samples) + 1
                 /\ running' /\ pc'["medium"] = "loop"
                 /\ \A i \in 1..Len(board.power_rails) :
                      /\ Lost(fd_voltage[i], sysfs'.voltage[i]) =>
                           s.voltage_mv[i] = 0 /\ s.power_mw[i] = 0
                      /\ Lost(fd_current[i], sysfs'.current[i]) =>
                           s.current_ma[i] = 0 /\ s.power_mw[i] = 0
        /\ iter'["slow"] = iter["slow"] + 1 =>
             LET s == slow_samples'[Len(slow_samples')]
             IN  /\ Len(slow_samples') = Len(slow_samples) + 1
                 /\ running' /\ pc'["slow"] = "loop"
                 /\ \A i \in 1..Len(board.thermal_zones) :
                      Lost(fd_thermal[i], sysfs'.thermal[i]) =>
                        s.temp_c[i] = 0 ]_vars

\* no handle could be opened and the fast loop has run twice, the second
\* time after an iteration that found every file unreadable
C29_Witness ==
    /\ fd_gpu_load = FdNone /\ fd_emc = FdNone
    /\ iter["fast"] = 2
    /\ sysfs = AllUnreadable
    /\ Len(fast_samples) = WarmupSamples + 2
    /\ fast_count = WarmupSamples + 2
    /\ fast_samples[Len(fast_samples)].gpu_load = 0
    /\ fast_samples[Len(fast_samples)].emc_util = 0 - 1000


\* ---- C28 ----------------------------------------------------------------
\* C28: in the steady loop of every tier the deadline after k sleeps is the
\* deadline captured at loop entry plus k times 10^9 / hz nanoseconds,
\* however long the iterations took, and a sleep whose deadline has passed
\* returns at once while one whose deadline lies ahead ends at the deadline.
C28_DeadlinesOnTheGrid ==
    /\ [](\A t \in Tiers :
            pc[t] \in {"body", "sleep"} =>
              LET h     == IF t = "fast" THEN config.fast_hz
                           ELSE IF t = "medium" THEN config.medium_hz
                           ELSE config.slow_hz
                  total == entry[t].tv_nsec + iter[t] * (1000000000 \div h)
              IN  /\ next[t].tv_sec = entry[t].tv_sec + (total \div 1000000000)
                  /\ next[t].tv_nsec = total % 1000000000)
    /\ [][ \A t \in Tiers :
             iter'[t] = iter[t] + 1 =>
               LET deadline == next'[t].tv_sec * 1000000000 + next'[t].tv_nsec
               IN  now' = IF deadline <= now THEN now ELSE deadline ]_vars

\* a tier has slept twice, its deadline has moved into the next second, and
\* the clock is more than an interval past it after two overruns
C28_Witness ==
    \E t \in Tiers :
       /\ iter[t] = 2
       /\ next[t].tv_sec = entry[t].tv_sec + 1
       /\ next[t].tv_sec * 1000000000 + next[t].tv_nsec
            + (1000000000 \div hz(t)) < now


\* ---- C30 ----------------------------------------------------------------
\* C30: in a file that stop() has written completely, every sync point has
\* fast_sample_idx at most the num_fast_samples of the header.
C30_SyncIdxWithinFastArray ==
    FileComplete(file) =>
       \A i \in 1..Len(file.sync) :
          file.sync[i].fast_sample_idx <= file.hdr.num_fast_samples


\* ---- C31 ----------------------------------------------------------------
\* C31: when stop() returns, fast_count_ (the value of sample_count())
\* equals the num_fast_samples of the header that this stop() wrote, and
\* while the engine is not running and the owner is between two calls no
\* step changes fast_count_ or the header.
C31_CountKeptAfterStop ==
    /\ [][ (pc[Ctl] = "close_fds" /\ pc'[Ctl] # "close_fds")
             => /\ FileComplete(file')
                /\ fast_count' = file'.hdr.num_fast_samples ]_vars
    /\ [][ (~running /\ pc[Ctl] = "idle")
             => /\ fast_count' = fast_count
                /\ file'.hdr = file.hdr ]_vars

\* stop() has returned from a run with samples, the count agrees with the
\* header, and a client has called wait_for_warmup() since
C31_Witness ==
    /\ pc[Ctl] = "idle"
    /\ ~running
    /\ runs = 1
    /\ FileComplete(file)
    /\ fast_count = WarmupSamples + 1
    /\ fast_count = file.hdr.num_fast_samples
    /\ pc["w1"] # "idle"


\* ---- C32 ----------------------------------------------------------------
\* C32: when the stop() of a run has cleared running_ while warmed_up_ was
\* still false, the header and the arrays that this stop() writes hold no
\* medium sample, no slow sample and at most 10 fast samples.
C32_EarlyStopFile ==
    \A k \in 1..MaxRuns :
       []( (runs = k /\ pc[Ctl] = "stop_join_fast" /\ ~warmed_up)
             => []( (runs = k /\ pc[Ctl] \in {"wf_samples", "wf_sync",
                                              "close_fds"})
                      => /\ file.hdr.num_medium_samples = 0
                         /\ file.hdr.num_slow_samples = 0
                         /\ file.hdr.num_fast_samples <= 10
                         /\ pc[Ctl] # "wf_samples" =>
                              /\ Len(file.medium) = 0
                              /\ Len(file.slow) = 0
                              /\ Len(file.fast) <= 10 ) )

\* stop() has written the file of a run that it cut short inside the primer
\* loop, after a gated thread had been released from the barrier
C32_Witness ==
    /\ pc[Ctl] = "close_fds"
    /\ FileComplete(file)
    /\ file.hdr.num_fast_samples > 0
    /\ file.hdr.num_fast_samples < WarmupSamples
    /\ Len(file.fast) = file.hdr.num_fast_samples
    /\ Len(file.medium) = 0
    /\ warmed_up


\* ---- C33 ----
\* the fast thread of run k has executed the store of line 340: start() of
\* run k has returned and the thread is past the store or has been joined
\* ("none"), or a later run has begun (stop() joined it, and run_fast
\* always reaches the store before it ends)
PublishedIn(k) ==
    \/ runs > k
    \/ /\ runs = k
       /\ pc[Ctl] \notin StartLabels
       /\ pc["fast"] \in {"pub_notify", "fast_loop", "fast_bump", "fast_sleep",
                          "done", "none"}

\* C33: in a second or later run, a client's wait_for_warmup() that begins
\* after start() has returned is about to return (it holds the mutex and
\* reads warmed_up_ true) only when that run's fast thread has published
\* its warm-up; the flag left by the previous run never lets it through.
C33_NoReturnOnStaleFlag ==
    \A k \in 2..MaxRuns : \A w \in Waiters :
        []( (runs = k /\ pc[Ctl] \notin StartLabels /\ pc[w] = "idle")
              => []( (pc[w] = "wfw_check" /\ warmed_up) => PublishedIn(k) ) )

\* second run, start() returned, the engine still running: a client is in
\* wait_for_warmup() holding the mutex, and the flag it reads was stored by
\* this run's fast thread, which has taken its ten primer samples
C33_Witness ==
    /\ runs = 2
    /\ pc[Ctl] = "idle"
    /\ running
    /\ pc["w1"] = "wfw_check"
    /\ warmed_up
    /\ pc["fast"] = "fast_loop"
    /\ fast_count = WarmupSamples

====
